---------------------------- MODULE Spec2Model ----------------------------
(***************************************************************************)
(* Model of the binary-classifier training/serving repository:             *)
(*   - the preprocessing pipeline (app/data_management/pipeline.py and     *)
(*     preprocessors.py) as operators over small tables,                   *)
(*   - the label binarizer,                                                *)
(*   - the lazily loading ModelServer (app/model_server.py) behind the     *)
(*     /infer handler (app/serve.py), with the training run that writes    *)
(*     the artifacts the server loads (app/train.py).                      *)
(*                                                                         *)
(* Data representation.  A cell is a sequence of length 0 (None / NaN) or  *)
(* 1 (a value).  A table is [cols |-> sequence of column names,            *)
(* rows |-> sequence of functions from the column names to cells].         *)
(* Numbers are integers; the output of the standard scaler is held in      *)
(* hundredths (fixed point, truncated towards zero).                       *)
(***************************************************************************)
EXTENDS Integers, Sequences, FiniteSets, TLC

(***************************************************************************)
(* Generic helpers                                                         *)
(***************************************************************************)
None == <<>>
Some(v) == <<v>>
IsNull(c) == Len(c) = 0

Range(s) == {s[i] : i \in 1..Len(s)}

RECURSIVE SumSeq(_)
SumSeq(s) == IF Len(s) = 0 THEN 0 ELSE s[1] + SumSeq(Tail(s))

Abs(x) == IF x < 0 THEN 0 - x ELSE x

\* integer square root by bisection: the r >= 0 with r*r <= x < (r+1)*(r+1)
RECURSIVE IsqrtIn(_, _, _)
IsqrtIn(x, lo, hi) ==
    IF lo >= hi THEN lo
    ELSE LET mid == (lo + hi + 1) \div 2
         IN  IF mid * mid <= x THEN IsqrtIn(x, mid, hi) ELSE IsqrtIn(x, lo, mid - 1)

Isqrt(x) == IsqrtIn(x, 0, 40000)

(***************************************************************************)
(* Tables                                                                  *)
(***************************************************************************)
EmptyTable == [cols |-> <<>>, rows |-> <<>>]

HasCol(X, c) == c \in Range(X.cols)

NRows(X) == Len(X.rows)

Column(X, c) == [i \in 1..NRows(X) |-> X.rows[i][c]]

\* X with only the columns named in colseq, in colseq's order
Project(X, colseq) ==
    [cols |-> colseq,
     rows |-> [i \in 1..NRows(X) |-> [c \in Range(colseq) |-> X.rows[i][c]]]]

\* X[c] = vals   (pandas column assignment: replaces c in place, or appends it)
SetColumn(X, c, vals) ==
    [cols |-> IF HasCol(X, c) THEN X.cols ELSE Append(X.cols, c),
     rows |-> [i \in 1..NRows(X) |->
                 [d \in Range(X.cols) \cup {c} |->
                     IF d = c THEN vals[i] ELSE X.rows[i][d]]]]

\* result of a call that may raise
Ok(t) == [err |-> "", tab |-> t]
Fail(e) == [err |-> e, tab |-> EmptyTable]
Then(r, F(_)) == IF r.err # "" THEN r ELSE F(r.tab)

\* pandas value_counts(): the distinct non-null values in first-encountered order
RECURSIVE DistinctIn(_, _)
DistinctIn(s, seen) ==
    IF Len(s) = 0 THEN <<>>
    ELSE IF IsNull(s[1]) \/ s[1][1] \in seen THEN DistinctIn(Tail(s), seen)
    ELSE <<s[1][1]>> \o DistinctIn(Tail(s), seen \cup {s[1][1]})

Distinct(s) == DistinctIn(s, {})

Count(s, v) == Cardinality({i \in 1..Len(s) : ~IsNull(s[i]) /\ s[i][1] = v})

NullCount(s) == Cardinality({i \in 1..Len(s) : IsNull(s[i])})

\* a stable sort by descending count: equal counts keep the order of cats
RECURSIVE SortByCount(_, _)
SortByCount(cats, s) ==
    IF Len(cats) = 0 THEN <<>>
    ELSE LET best == CHOOSE i \in 1..Len(cats) :
                        \A j \in 1..Len(cats) :
                            \/ Count(s, cats[i]) > Count(s, cats[j])
                            \/ (Count(s, cats[i]) = Count(s, cats[j]) /\ i <= j)
             rest == [k \in 1..(Len(cats) - 1) |->
                         IF k < best THEN cats[k] ELSE cats[k + 1]]
         IN  <<cats[best]>> \o SortByCount(rest, s)

\* the order in which equal counts enter the sort.  pandas sorts the counts
\* with numpy's quicksort, which is not a stable sort: where the installed
\* numpy keeps equal counts in first-encountered order stable_sort is TRUE,
\* and the reverse order stands for the builds that do not.
TieOrder(cats, stable_sort) ==
    IF stable_sort THEN cats ELSE [i \in 1..Len(cats) |-> cats[Len(cats) + 1 - i]]

\* Series.value_counts(), also followed by .sort_values(ascending=False)
value_counts(s, stable_sort) == SortByCount(TieOrder(Distinct(s), stable_sort), s)

Head_n(s, n) == IF Len(s) <= n THEN s ELSE SubSeq(s, 1, n)

(***************************************************************************)
(* Schema (one fixed schema document)                                      *)
(***************************************************************************)
id_field == "id"
target_field == "y"
target_class == "B"
numeric_features == <<"n1", "n2">>
categorical_features == <<"c1">>
features == numeric_features \o categorical_features


(***************************************************************************)
(* Program constants of the pipeline configuration                        *)
(***************************************************************************)
\* ValueClipper(min_val=-4.0, max_val=4.0)
min_val == -4
max_val == 4
\* MostFrequentImputer(threshold=0.1), in percent
threshold_pct == 10
\* RareLabelEncoder(tol=0.03, n_categories=1), tol in percent
tol_pct == 3
n_categories == 1
\* OneHotEncoderMultipleCols(max_num_categories=10)
max_num_categories == 10
\* CategoricalImputer(imputation_method="missing") fills with this tag,
\* RareLabelEncoder replaces rare labels with this one
missing_tag == "Missing"
rare_tag == "Rare"

(***************************************************************************)
(* Cell-wise and column-wise table updates                                 *)
(***************************************************************************)
\* X[c] = F(c, X[c]) for every column c of X that is in colset
MapCols(X, colset, F(_, _)) ==
    [cols |-> X.cols,
     rows |-> [i \in 1..NRows(X) |->
                 [c \in Range(X.cols) |->
                     IF c \in colset THEN F(c, X.rows[i][c]) ELSE X.rows[i][c]]]]

\* X with the columns `names` appended; G(name, row) is the new cell
AppendCols(X, names, G(_, _)) ==
    [cols |-> X.cols \o names,
     rows |-> [i \in 1..NRows(X) |->
                 [c \in Range(X.cols) \cup Range(names) |->
                     IF c \in Range(X.cols) THEN X.rows[i][c] ELSE G(c, X.rows[i])]]]

(***************************************************************************)
(* ColumnSelector                                                          *)
(***************************************************************************)
\* a selector that lets every column through
ColumnSelector_transform_all(columns, selector_type, X) ==
    X

ColumnSelector_transform(columns, selector_type, X) ==
    IF selector_type = "keep"
    THEN Project(X, SelectSeq(X.cols, LAMBDA col : col \in Range(columns)))
    ELSE Project(X, SelectSeq(X.cols, LAMBDA col : col \notin Range(columns)))

(***************************************************************************)
(* feature_engine: every transform first checks that the input has as many *)
(* columns as the table the stage was fitted on                            *)
(***************************************************************************)
CheckWidth(X, n_features_in) ==
    IF Len(X.cols) = n_features_in THEN Ok(X) ELSE Fail("ValueError: number of columns")

\* The releases of feature_engine differ in what follows the check: the later
\* ones also put the columns in the order of the table the stage was fitted on
\* (X = X[feature_names_in_]), the earlier ones leave the order of the input.
\* Which release is installed is not fixed by the repository.
CheckMatchesTraining(X, feature_names_in, reorders) ==
    IF Len(X.cols) # Len(feature_names_in) THEN Fail("ValueError: number of columns")
    ELSE IF ~reorders THEN Ok(X)
    ELSE IF Range(feature_names_in) \subseteq Range(X.cols) THEN Ok(Project(X, feature_names_in))
    ELSE Fail("KeyError: not in index")

(***************************************************************************)
(* AddMissingIndicator(variables=numeric_features)  (missing_only=True)    *)
(***************************************************************************)
na_name(var) == var \o "_na"

AddMissingIndicator_fit(X) ==
    SelectSeq(numeric_features, LAMBDA var : NullCount(Column(X, var)) > 0)

AddMissingIndicator_transform(variables_, X) ==
    AppendCols(X, [i \in 1..Len(variables_) |-> na_name(variables_[i])],
               LAMBDA name, row :
                   LET var == CHOOSE v \in Range(variables_) : na_name(v) = name
                   IN  IF IsNull(row[var]) THEN Some(1) ELSE Some(0))

(***************************************************************************)
(* MeanMedianImputer(imputation_method="mean")                             *)
(* imputer_dict_[var] is the mean S/k of the k non-null values; k = 0      *)
(* stands for the NaN mean of an all-null column.  From this stage on a    *)
(* numeric cell of var holds its value times k (times 1 when k = 0), so    *)
(* that the imputed mean is the integer S.                                 *)
(***************************************************************************)
NonNullVals(col) == [i \in 1..Len(SelectSeq(col, LAMBDA c : ~IsNull(c))) |->
                        SelectSeq(col, LAMBDA c : ~IsNull(c))[i][1]]

MeanMedianImputer_fit(X) ==
    [var \in Range(numeric_features) |->
        LET vals == NonNullVals(Column(X, var))
        IN  [k |-> Len(vals), S |-> SumSeq(vals)]]

MeanMedianImputer_transform(imputer_dict_, X) ==
    MapCols(X, Range(numeric_features),
            LAMBDA var, c :
                LET m == imputer_dict_[var]
                IN  IF m.k = 0 THEN c
                    ELSE IF IsNull(c) THEN Some(m.S) ELSE Some(c[1] * m.k))

(***************************************************************************)
(* SklearnTransformerWrapper(StandardScaler())                             *)
(* Fitted on the imputed column c_1..c_n (in units of 1/k):                *)
(*   mean_ = M/(n k), var_ = V/(n k)^2  with M = sum c_i, V = n sum c_i^2  *)
(*   - M^2 (population variance); scale_ = sqrt(var_), or 1 when var_ = 0. *)
(* A column holding NaN only has NaN statistics.                           *)
(***************************************************************************)
StandardScaler_fit(imputer_dict_, X) ==
    [var \in Range(numeric_features) |->
        LET col == Column(X, var)
            vals == NonNullVals(col)
            n == Len(vals)
            M == SumSeq(vals)
            Q == SumSeq([i \in 1..n |-> vals[i] * vals[i]])
        IN  IF n = 0 THEN [nan |-> TRUE, n |-> 0, k |-> 1, M |-> 0, V |-> 0]
            ELSE [nan |-> FALSE, n |-> n,
                  k |-> IF imputer_dict_[var].k = 0 THEN 1 ELSE imputer_dict_[var].k,
                  M |-> M, V |-> n * Q - M * M]]

\* (c - mean_) / scale_ in hundredths, truncated towards zero
Standardize(s, c) ==
    LET d == s.n * c - s.M
        sign == IF d < 0 THEN -1 ELSE 1
    IN  IF s.V = 0 THEN sign * ((100 * Abs(d)) \div (s.n * s.k))
        ELSE sign * Isqrt((10000 * d * d) \div s.V)

StandardScaler_transform(scaler, X) ==
    MapCols(X, Range(numeric_features),
            LAMBDA var, c :
                IF scaler[var].nan \/ IsNull(c) THEN None
                ELSE Some(Standardize(scaler[var], c[1])))

(***************************************************************************)
(* ValueClipper(fields_to_clip=numeric_features, min_val, max_val)         *)
(***************************************************************************)
clip_lower(v, lo) == IF v < lo THEN lo ELSE v
clip_upper(v, hi) == IF v > hi THEN hi ELSE v

\* data[field].clip(lower=min_val), .clip(upper=max_val) on cells that hold
\* their value times unit
ValueClipper_clip(data, unit) ==
    MapCols(data, Range(numeric_features),
            LAMBDA field, c :
                IF IsNull(c) THEN c
                ELSE Some(clip_upper(clip_lower(c[1], unit * min_val), unit * max_val)))

\* in the pipeline the clipper gets the standardized values, in hundredths
ValueClipper_transform(data) == ValueClipper_clip(data, 100)

(***************************************************************************)
(* MostFrequentImputer(cat_vars=categorical_features, threshold=0.1)       *)
(* fill_vals is a dict: a function from the fitted columns to their value  *)
(***************************************************************************)
NoDict == [c \in {} |-> None]

\* d[key] = V(key) for every key of keys
DictSetAll(d, keys, V(_)) ==
    [c \in DOMAIN d \cup Range(keys) |-> IF c \in Range(keys) THEN V(c) ELSE d[c]]

\* a fit that also takes a feature whose null fraction equals the threshold
MostFrequentImputer_fit_inclusive(fill_vals, X, stable_sort) ==
    LET fitted_cat_vars ==
            SelectSeq(categorical_features,
                      LAMBDA var : /\ HasCol(X, var)
                                   /\ 100 * NullCount(Column(X, var)) <= threshold_pct * NRows(X))
    IN  DictSetAll(fill_vals, fitted_cat_vars,
                   LAMBDA col : value_counts(Column(X, col), stable_sort)[1])

MostFrequentImputer_fit(fill_vals, X, stable_sort) ==
    LET fitted_cat_vars ==
            SelectSeq(categorical_features,
                      LAMBDA var : /\ HasCol(X, var)
                                   /\ 100 * NullCount(Column(X, var)) < threshold_pct * NRows(X))
    IN  DictSetAll(fill_vals, fitted_cat_vars,
                   LAMBDA col : value_counts(Column(X, col), stable_sort)[1])

MostFrequentImputer_transform(fill_vals, X) ==
    MapCols(X, DOMAIN fill_vals,
            LAMBDA col, c : IF IsNull(c) THEN Some(fill_vals[col]) ELSE c)

(***************************************************************************)
(* CategoricalImputer(imputation_method="missing")                         *)
(***************************************************************************)
CategoricalImputer_transform(X) ==
    MapCols(X, Range(categorical_features),
            LAMBDA var, c : IF IsNull(c) THEN Some(missing_tag) ELSE c)

(***************************************************************************)
(* RareLabelEncoder(tol=0.03, n_categories=1)                              *)
(***************************************************************************)
RareLabelEncoder_fit(X, stable_sort) ==
    [var \in Range(categorical_features) |->
        LET col == Column(X, var)
        IN  IF Len(Distinct(col)) > n_categories
            THEN SelectSeq(value_counts(col, stable_sort),
                           LAMBDA cat : 100 * Count(col, cat) >= tol_pct * Len(col))
            ELSE Distinct(col)]

RareLabelEncoder_transform(encoder_dict_, X) ==
    MapCols(X, Range(categorical_features),
            LAMBDA var, c :
                IF ~IsNull(c) /\ c[1] \in Range(encoder_dict_[var]) THEN c
                ELSE Some(rare_tag))

(***************************************************************************)
(* OneHotEncoderMultipleCols(ohe_columns=categorical_features)             *)
(***************************************************************************)
ohe_columns == categorical_features

ohe_name(col, cat) == col \o "_" \o cat

OneHotEncoder_fit(top_cat_by_ohe_col, X, stable_sort) ==
    DictSetAll(top_cat_by_ohe_col,
               SelectSeq(ohe_columns, LAMBDA col : HasCol(X, col)),
               LAMBDA col : Head_n(value_counts(Column(X, col), stable_sort),
                                     max_num_categories))

\* the (column, category) pairs in the order the indicator columns are emitted
RECURSIVE OhePairs(_, _)
OhePairs(cols, top_cat_by_ohe_col) ==
    IF Len(cols) = 0 THEN <<>>
    ELSE [i \in 1..Len(top_cat_by_ohe_col[cols[1]]) |->
              [col |-> cols[1], cat |-> top_cat_by_ohe_col[cols[1]][i]]]
         \o OhePairs(Tail(cols), top_cat_by_ohe_col)

\* the first ohe column at which the loop of transform raises, if any
OheFailure(top_cat_by_ohe_col, data) ==
    LET bad(col) == \/ col \notin DOMAIN top_cat_by_ohe_col
                    \/ (Len(top_cat_by_ohe_col[col]) > 0 /\ ~HasCol(data, col))
        failing == SelectSeq(ohe_columns, bad)
    IN  IF Len(failing) = 0 THEN ""
        ELSE IF failing[1] \notin DOMAIN top_cat_by_ohe_col THEN "KeyError"
        ELSE "Exception: fitted one-hot-encoded column does not exist"

\* the indicator columns np.where(data[col] == cat, 1, 0), appended to data
OheExpand(pairs, data) ==
    AppendCols(data,
               [i \in 1..Len(pairs) |-> ohe_name(pairs[i].col, pairs[i].cat)],
               LAMBDA col_name, row :
                   LET p == CHOOSE q \in Range(pairs) : ohe_name(q.col, q.cat) = col_name
                   IN  IF ~IsNull(row[p.col]) /\ row[p.col][1] = p.cat
                       THEN Some(1) ELSE Some(0))

\* a one-hot stage that rejects a value it has not learned
OneHotEncoder_transform_strict(top_cat_by_ohe_col, data) ==
    IF OheFailure(top_cat_by_ohe_col, data) # ""
    THEN Fail(OheFailure(top_cat_by_ohe_col, data))
    ELSE IF \E i \in 1..NRows(data) : \E col \in Range(ohe_columns) :
                data.rows[i][col] \notin {Some(cat) : cat \in Range(top_cat_by_ohe_col[col])}
    THEN Fail("ValueError: unknown category")
    ELSE Ok(OheExpand(OhePairs(ohe_columns, top_cat_by_ohe_col), data))

\* a one-hot stage that skips a fitted column the table does not have
OneHotEncoder_transform_lenient(top_cat_by_ohe_col, data) ==
    Ok(OheExpand(OhePairs(SelectSeq(ohe_columns, LAMBDA col : HasCol(data, col)),
                          top_cat_by_ohe_col), data))

OneHotEncoder_transform(top_cat_by_ohe_col, data) ==
    IF Len(ohe_columns) > 0
    THEN IF OheFailure(top_cat_by_ohe_col, data) # ""
         THEN Fail(OheFailure(top_cat_by_ohe_col, data))
         ELSE Ok(OheExpand(OhePairs(ohe_columns, top_cat_by_ohe_col), data))
    ELSE Ok(data)

(***************************************************************************)
(* The pipeline of get_preprocess_pipeline: its state as constructed, its  *)
(* fit_transform and its transform                                         *)
(***************************************************************************)
NewPipeline(reorders) ==
    [fitted |-> FALSE,
     reorders |-> reorders,
     feature_names_in |-> <<>>,
     n_features_in |-> 0,
     variables_ |-> <<>>,
     imputer_dict_ |-> NoDict,
     scaler |-> NoDict,
     fill_vals |-> NoDict,
     encoder_dict_ |-> NoDict,
     top_cat_by_ohe_col |-> NoDict]

\* sklearn Pipeline.fit_transform: every stage is fitted on, and then transforms,
\* the output of the stage before it
Pipeline_fit_transform(pipe, X, stable_sort) ==
    LET X1 == ColumnSelector_transform(features, "keep", X)
        na == AddMissingIndicator_fit(X1)
        X2 == AddMissingIndicator_transform(na, X1)
        imp == MeanMedianImputer_fit(X2)
        X3 == MeanMedianImputer_transform(imp, X2)
        sc == StandardScaler_fit(imp, X3)
        X4 == StandardScaler_transform(sc, X3)
        X5 == ValueClipper_transform(X4)
        fv == MostFrequentImputer_fit(pipe.fill_vals, X5, stable_sort)
        X6 == MostFrequentImputer_transform(fv, X5)
        X7 == CategoricalImputer_transform(X6)
        enc == RareLabelEncoder_fit(X7, stable_sort)
        X8 == RareLabelEncoder_transform(enc, X7)
        top == OneHotEncoder_fit(pipe.top_cat_by_ohe_col, X8, stable_sort)
        r9 == OneHotEncoder_transform(top, X8)
    IN  [pipe |-> [fitted |-> TRUE,
                   reorders |-> pipe.reorders,
                   feature_names_in |-> X1.cols,
                   n_features_in |-> Len(X1.cols),
                   variables_ |-> na,
                   imputer_dict_ |-> imp,
                   scaler |-> sc,
                   fill_vals |-> fv,
                   encoder_dict_ |-> enc,
                   top_cat_by_ohe_col |-> top],
         err |-> r9.err,
         tab |-> IF r9.err # "" THEN EmptyTable
                 ELSE ColumnSelector_transform(categorical_features, "drop", r9.tab)]

\* sklearn Pipeline.transform: the stages in order, each with its fitted state
Pipeline_stages(pipe, X) ==
    LET s1 == Ok(ColumnSelector_transform(features, "keep", X))
        s2 == Then(Then(s1, LAMBDA t : CheckMatchesTraining(t, pipe.feature_names_in, pipe.reorders)),
                   LAMBDA t : Ok(AddMissingIndicator_transform(pipe.variables_, t)))
        wide == pipe.n_features_in + Len(pipe.variables_)
        s3 == Then(Then(s2, LAMBDA t : CheckWidth(t, wide)),
                   LAMBDA t : Ok(MeanMedianImputer_transform(pipe.imputer_dict_, t)))
        s4 == Then(Then(s3, LAMBDA t : CheckWidth(t, wide)),
                   LAMBDA t : Ok(StandardScaler_transform(pipe.scaler, t)))
        s5 == Then(s4, LAMBDA t : Ok(ValueClipper_transform(t)))
        s6 == Then(s5, LAMBDA t : Ok(MostFrequentImputer_transform(pipe.fill_vals, t)))
        s7 == Then(Then(s6, LAMBDA t : CheckWidth(t, wide)),
                   LAMBDA t : Ok(CategoricalImputer_transform(t)))
        s8 == Then(Then(s7, LAMBDA t : CheckWidth(t, wide)),
                   LAMBDA t : Ok(RareLabelEncoder_transform(pipe.encoder_dict_, t)))
        s9 == Then(s8, LAMBDA t : OneHotEncoder_transform(pipe.top_cat_by_ohe_col, t))
    IN  Then(s9, LAMBDA t : Ok(ColumnSelector_transform(categorical_features, "drop", t)))

\* a replay from a saved state that has lost what the missing-indicator stage learned
Pipeline_transform_lossy(pipe, X) ==
    LET r == Pipeline_stages([pipe EXCEPT !.variables_ = <<>>], X)
    IN  [pipe |-> pipe, err |-> r.err, tab |-> r.tab]

\* a transform that fits the stages again on the table it is given
Pipeline_transform_refit(pipe, X) ==
    LET r == Pipeline_stages(pipe, X)
    IN  [pipe |-> IF r.err = "" THEN Pipeline_fit_transform(pipe, X, TRUE).pipe ELSE pipe,
         err |-> r.err, tab |-> r.tab]

\* the call preprocessor.transform(data): its result and the pipeline object after it
Pipeline_transform(pipe, X) ==
    LET r == Pipeline_stages(pipe, X)
    IN  [pipe |-> pipe, err |-> r.err, tab |-> r.tab]

(***************************************************************************)
(* What a transform leaves in the table object it was called with.  A      *)
(* step of the pipeline gets the object the step before it returned.  The  *)
(* feature_engine steps work on a copy (check_X), ColumnSelector returns a *)
(* new table; ValueClipper and MostFrequentImputer assign to the columns   *)
(* of their argument and return it, OneHotEncoderMultipleCols resets the   *)
(* index of its argument and returns a new table.  Rows are held by        *)
(* position here, so that a reset index shows no change.                   *)
(***************************************************************************)
PipelineSteps ==
    <<"column_selector", "missing_indicator", "mean_imputer", "standard_scaler",
      "outlier_value_clipper", "cat_most_frequent_imputer", "cat_imputer_with_missing_tag",
      "rare_label_encoder", "one_hot_encoder", "cat_var_dropper">>

\* every step hands back the object it was given
ReturnsArgument_always(step) ==
    TRUE

\* the step returns the object it was given (return data, return X)
ReturnsArgument(step) ==
    step \in {"outlier_value_clipper", "cat_most_frequent_imputer"}

\* the argument of the step after the step has run; a table that reaches a
\* step as the caller's own object holds the values as the caller gave them
StepWrite(pipe, step, t) ==
    CASE step = "outlier_value_clipper" -> ValueClipper_clip(t, 1)
      [] step = "cat_most_frequent_imputer" -> MostFrequentImputer_transform(pipe.fill_vals, t)
      [] OTHER -> t

\* the table object t after it was handed to the first of the steps
RECURSIVE WriteThrough(_, _, _)
WriteThrough(pipe, steps, t) ==
    IF Len(steps) = 0 THEN t
    ELSE IF ReturnsArgument(steps[1])
    THEN WriteThrough(pipe, Tail(steps), StepWrite(pipe, steps[1], t))
    ELSE StepWrite(pipe, steps[1], t)

\* the table X of the caller after preprocessor.transform(X)
Pipeline_transform_argument(pipe, X) == WriteThrough(pipe, PipelineSteps, X)

(***************************************************************************)
(* CustomLabelBinarizer(target_field, target_class)                        *)
(***************************************************************************)
NewLabelEncoder == [given_classes |-> None]

\* the classes left in the order of their first appearance
SortTargetLast_unsorted(classes) ==
    classes

\* list.sort(key = lambda k: k == target_class): stable, False before True
SortTargetLast(classes) ==
    SelectSeq(classes, LAMBDA k : k # target_class)
    \o SelectSeq(classes, LAMBDA k : k = target_class)

\* drop_duplicates().tolist(): the distinct values in first-encountered order
CustomLabelBinarizer_fit(data) ==
    [given_classes |-> Some(SortTargetLast(Distinct(Column(data, target_field))))]

\* sklearn label_binarize(y, classes=classes).flatten(), y without nulls.
\* A y of at most two distinct values is "binary": with two classes the result
\* is the indicator of the last class, with one class it is all zero.  In the
\* other cases the result has one indicator per class and row, row by row.
label_binarize(y, classes) ==
    LET n_classes == Len(classes)
        binary == Len(Distinct(y)) <= 2 /\ n_classes <= 2
        onehot(i) == [j \in 1..n_classes |-> IF y[i][1] = classes[j] THEN 1 ELSE 0]
        flat == [m \in 1..(Len(y) * n_classes) |->
                    onehot(((m - 1) \div n_classes) + 1)[((m - 1) % n_classes) + 1]]
    IN  IF binary /\ n_classes = 1 THEN [i \in 1..Len(y) |-> 0]
        ELSE IF binary /\ n_classes = 2
        THEN [i \in 1..Len(y) |-> IF y[i][1] = classes[2] THEN 1 ELSE 0]
        ELSE flat

\* data[target_field] = label_binarize(...): a value per row, or a ValueError
CustomLabelBinarizer_transform(encoder, data) ==
    IF ~HasCol(data, target_field) THEN Ok(data)
    ELSE IF IsNull(encoder.given_classes) THEN Fail("TypeError: classes is None")
    ELSE LET vals == label_binarize(Column(data, target_field), encoder.given_classes[1])
         IN  IF Len(vals) # NRows(data) THEN Fail("ValueError: length of values")
             ELSE Ok(SetColumn(data, target_field, [i \in 1..Len(vals) |-> Some(vals[i])]))

(***************************************************************************)
(* Bounded inputs                                                          *)
(***************************************************************************)
MaxTrainRows == 2

\* training tables: every declared column is present (validate_data has passed),
\* in the order of the file
TrainLayouts == {<<"id", "n1", "n2", "c1", "y">>, <<"id", "n2", "n1", "c1", "y">>}

TrainRow(i, v) ==
    [id |-> Some(i), n1 |-> v[1], n2 |-> v[2], c1 |-> v[3],
     y |-> IF i % 2 = 0 THEN Some("B") ELSE Some("A")]

\* the (n1, n2, c1) values a training row is drawn from
TrainValues ==
    {<<Some(0), Some(5), Some("a")>>,
     <<Some(2), Some(5), Some("b")>>,
     <<Some(2), Some(5), Some("a")>>,
     <<None, Some(5), Some("a")>>,
     <<Some(2), Some(5), None>>,
     <<None, None, None>>}

TrainTables ==
    UNION {{[cols |-> layout, rows |-> [i \in 1..n |-> TrainRow(i, f[i])]] :
               f \in [1..n -> TrainValues], layout \in TrainLayouts} : n \in 1..MaxTrainRows}

\* serving tables: one record, in one of several column layouts
ServeLayouts ==
    {<<"id", "n1", "n2", "c1">>,
     <<"id", "n2", "n1", "c1">>,
     <<"c1", "n1", "id", "n2", "y">>,
     <<"id", "n1", "n2", "c1", "x">>,
     <<"id", "n1", "n2">>,
     <<"id", "n1", "c1">>,
     <<"n1", "n2", "c1">>}

ServeValues == {None, Some(0), Some(9)} \X {None, Some(5)} \X {None, Some("a"), Some("z")}

ServeRow(v) ==
    [id |-> Some(7), n1 |-> v[1], n2 |-> v[2], c1 |-> v[3], y |-> Some("A"), x |-> Some(1)]

ServeTables ==
    {[cols |-> layout, rows |-> <<[c \in Range(layout) |-> ServeRow(v)[c]]>>] :
        layout \in ServeLayouts, v \in ServeValues}

\* label tables: the single target column handed to the label encoder
MaxLabelRows == 4

LabelTables ==
    UNION {{[cols |-> <<target_field>>, rows |-> [i \in 1..n |-> [c \in {target_field} |-> Some(f[i])]]] :
               f \in [1..n -> {"A", "B", "C"}]} : n \in 1..MaxLabelRows}

(***************************************************************************)
(* State                                                                   *)
(*   training process : train_data, preprocess_pipeline, transformed_data, *)
(*                      label_encoder, transformed_labels, classifier,     *)
(*                      train_pc                                           *)
(*   direct calls     : call (the last call of a transform and its result) *)
(*   artifact files   : disk                                               *)
(*   serving process  : model_server (the ModelServer's fields), requests  *)
(*                      (one record per /infer request), running (the      *)
(*                      request whose handler the event loop is running,   *)
(*                      0 if none), serving (the process is up)            *)
(*   history          : loads (completed executions of the two load        *)
(*                      statements), first_load_error                      *)
(***************************************************************************)
VARIABLES train_data, preprocess_pipeline, transformed_data, label_encoder,
          transformed_labels, classifier, train_pc, call, disk, model_server,
          requests, running, serving, loads, first_load_error

trainVars == <<train_data, preprocess_pipeline, transformed_data, label_encoder,
               transformed_labels, classifier, train_pc>>

serveVars == <<disk, model_server, requests, running, serving, loads, first_load_error>>

vars == <<train_data, preprocess_pipeline, transformed_data, label_encoder,
          transformed_labels, classifier, train_pc, call, disk, model_server,
          requests, running, serving, loads, first_load_error>>

NoCall == [op |-> "none", arg |-> EmptyTable, err |-> "", tab |-> EmptyTable]

ReverseRows(X) == [cols |-> X.cols, rows |-> [i \in 1..NRows(X) |-> X.rows[NRows(X) + 1 - i]]]

DataFrame_drop(X, col) == Project(X, SelectSeq(X.cols, LAMBDA c : c # col))

(***************************************************************************)
(* Preprocessing: the training run fits the pipeline once; afterwards the  *)
(* fitted pipeline, or its one-hot stage alone, is called on a table.      *)
(***************************************************************************)
\* train.py: transformed_data = preprocess_pipeline.fit_transform(train_data.drop(id))
\* the sort of this run's numpy keeps ties in first-encountered order, or not
DoFitTransform ==
    \E stable_sort \in BOOLEAN :
        LET r == Pipeline_fit_transform(preprocess_pipeline,
                                        DataFrame_drop(train_data, id_field), stable_sort)
        IN  /\ preprocess_pipeline' = r.pipe
            /\ transformed_data' = r.tab

\* train.py: transformed_labels = label_encoder.fit_transform(train_data[[target]])
DoLabelFitTransform ==
    LET enc == CustomLabelBinarizer_fit(Project(train_data, <<target_field>>))
    IN  /\ label_encoder' = enc
        /\ transformed_labels' = CustomLabelBinarizer_transform(enc, Project(train_data, <<target_field>>))

NoLabels == Ok(EmptyTable)

InitTrain ==
    /\ preprocess_pipeline \in {NewPipeline(reorders) : reorders \in BOOLEAN}
    /\ transformed_data = EmptyTable
    /\ label_encoder = NewLabelEncoder
    /\ transformed_labels = NoLabels
    /\ classifier = None
    /\ train_pc = "preprocess"

InitServe ==
    /\ disk = [preprocessor |-> None, label_encoder |-> None, model |-> None]
    /\ model_server = [preprocessor |-> None, label_encoder |-> None, model |-> None]
    /\ requests = <<>>
    /\ running = 0
    /\ serving = TRUE
    /\ loads = [preprocessor |-> 0, model |-> 0]
    /\ first_load_error = ""

InitPipe ==
    /\ train_data \in TrainTables
    /\ InitTrain
    /\ InitServe
    /\ call = NoCall

FitTransform ==
    /\ ~preprocess_pipeline.fitted
    /\ DoFitTransform
    /\ UNCHANGED <<train_data, label_encoder, transformed_labels, classifier, train_pc, call>>
    /\ UNCHANGED serveVars

Transform(X) ==
    /\ preprocess_pipeline.fitted
    /\ call.op = "none"
    /\ LET r == Pipeline_transform(preprocess_pipeline, X)
       IN  /\ preprocess_pipeline' = r.pipe
           /\ call' = [op |-> "transform", arg |-> X, err |-> r.err, tab |-> r.tab,
                       arg_after |-> Pipeline_transform_argument(preprocess_pipeline, X)]
    /\ UNCHANGED <<train_data, transformed_data, label_encoder, transformed_labels, classifier, train_pc>>
    /\ UNCHANGED serveVars

\* the one-hot stage called on its own, on a table of the categorical columns
OneHotTransform(X) ==
    /\ preprocess_pipeline.fitted
    /\ call.op = "none"
    /\ LET r == OneHotEncoder_transform(preprocess_pipeline.top_cat_by_ohe_col, X)
       IN  call' = [op |-> "one_hot", arg |-> X, err |-> r.err, tab |-> r.tab]
    /\ UNCHANGED trainVars
    /\ UNCHANGED serveVars

\* tables of the categorical columns alone, as they reach the one-hot stage
\* (no nulls: the two imputers before it have filled them), or without them
OneHotTables ==
    {[cols |-> <<"c1">>, rows |-> <<[c \in {"c1"} |-> Some(v)]>>] :
        v \in {"a", "b", "z", missing_tag, rare_tag}}
    \cup {[cols |-> <<"n1">>, rows |-> <<[c \in {"n1"} |-> Some(0)]>>]}

NextPipe ==
    \/ FitTransform
    \/ \E X \in ServeTables \cup {train_data, DataFrame_drop(train_data, id_field), ReverseRows(train_data)} :
          Transform(X)
    \/ \E X \in OneHotTables : OneHotTransform(X)

SpecPipe == InitPipe /\ [][NextPipe]_vars

(***************************************************************************)
(* The label encoder on its own: fit on a target column, then transform.   *)
(***************************************************************************)
InitLabel ==
    /\ train_data \in LabelTables
    /\ InitTrain
    /\ InitServe
    /\ call = NoCall

LabelFit ==
    /\ IsNull(label_encoder.given_classes)
    /\ label_encoder' = CustomLabelBinarizer_fit(train_data)
    /\ UNCHANGED <<train_data, preprocess_pipeline, transformed_data, transformed_labels,
                   classifier, train_pc, call>>
    /\ UNCHANGED serveVars

LabelTransform(X) ==
    /\ ~IsNull(label_encoder.given_classes)
    /\ call.op = "none"
    /\ LET r == CustomLabelBinarizer_transform(label_encoder, X)
       IN  call' = [op |-> "label_transform", arg |-> X, err |-> r.err, tab |-> r.tab]
    /\ UNCHANGED trainVars
    /\ UNCHANGED serveVars

NextLabel ==
    \/ LabelFit
    \/ \E X \in {train_data} \cup {t \in LabelTables : NRows(t) = 1} : LabelTransform(X)

SpecLabel == InitLabel /\ [][NextLabel]_vars

(***************************************************************************)
(* Training run (train.py) and serving process (serve.py, ModelServer)     *)
(***************************************************************************)
MaxRequests == 2

ServeTable(layout, v) == [cols |-> layout, rows |-> <<[c \in Range(layout) |-> ServeRow(v)[c]]>>]

\* the training file of the serving runs: two classes, two categories of
\* different frequency and a missing number
DemoTrainTables ==
    {[cols |-> <<"id", "n1", "n2", "c1", "y">>,
      rows |-> <<TrainRow(1, <<None, Some(5), Some("a")>>),
                 TrainRow(2, <<Some(2), Some(5), Some("b")>>),
                 TrainRow(3, <<Some(2), Some(5), Some("a")>>)>>]}

\* request bodies: a good record, one with an unseen category and a missing
\* number, one without a categorical column, one without the id, and no record
RequestPayloads ==
    {ServeTable(<<"id", "n1", "n2", "c1">>, <<Some(0), Some(5), Some("a")>>),
     ServeTable(<<"id", "n1", "n2", "c1">>, <<Some(9), None, Some("z")>>),
     ServeTable(<<"id", "n1", "n2">>, <<Some(0), Some(5), None>>),
     ServeTable(<<"n1", "n2", "c1">>, <<Some(0), Some(5), Some("a")>>),
     EmptyTable}

Init ==
    /\ train_data \in DemoTrainTables
    /\ InitTrain
    /\ InitServe
    /\ call = NoCall

\* ---- run_training ----
TrainPreprocess ==
    /\ train_pc = "preprocess"
    /\ DoFitTransform
    /\ DoLabelFitTransform
    /\ train_pc' = IF transformed_labels'.err = "" THEN "balance" ELSE "failed"
    /\ UNCHANGED <<train_data, classifier, call>>
    /\ UNCHANGED serveVars

\* SMOTE().fit_resample raises when a class has too few samples for its
\* neighbours; the resampling itself is outside this model
TrainBalance ==
    /\ train_pc = "balance"
    /\ \E ok \in BOOLEAN :
          train_pc' = IF ok THEN "fit" ELSE "failed"
    /\ UNCHANGED <<train_data, preprocess_pipeline, transformed_data, label_encoder,
                   transformed_labels, classifier, call>>
    /\ UNCHANGED serveVars

\* Classifier().fit: the forest remembers the columns it was fitted on
Classifier_fit(train_X) == [feature_names_in |-> train_X.cols]

\* a classifier fit that does not wait for the class-balance step
TrainFit_unbalanced ==
    /\ train_pc \in {"balance", "fit"}
    /\ classifier' = Some(Classifier_fit(DataFrame_drop(DataFrame_drop(transformed_data, id_field),
                                                        target_field)))
    /\ train_pc' = "save_preprocessor"
    /\ UNCHANGED <<train_data, preprocess_pipeline, transformed_data, label_encoder,
                   transformed_labels, call>>
    /\ UNCHANGED serveVars

TrainFit ==
    /\ train_pc = "fit"
    /\ classifier' = Some(Classifier_fit(DataFrame_drop(DataFrame_drop(transformed_data, id_field),
                                                        target_field)))
    /\ train_pc' = "save_preprocessor"
    /\ UNCHANGED <<train_data, preprocess_pipeline, transformed_data, label_encoder,
                   transformed_labels, call>>
    /\ UNCHANGED serveVars

SavePreprocessor ==
    /\ train_pc = "save_preprocessor"
    /\ disk' = [disk EXCEPT !.preprocessor = Some(preprocess_pipeline)]
    /\ train_pc' = "save_label_encoder"
    /\ UNCHANGED <<train_data, preprocess_pipeline, transformed_data, label_encoder,
                   transformed_labels, classifier, call>>
    /\ UNCHANGED <<model_server, requests, running, serving, loads, first_load_error>>

SaveLabelEncoder ==
    /\ train_pc = "save_label_encoder"
    /\ disk' = [disk EXCEPT !.label_encoder = Some(label_encoder)]
    /\ train_pc' = "save_model"
    /\ UNCHANGED <<train_data, preprocess_pipeline, transformed_data, label_encoder,
                   transformed_labels, classifier, call>>
    /\ UNCHANGED <<model_server, requests, running, serving, loads, first_load_error>>

SaveModel ==
    /\ train_pc = "save_model"
    /\ disk' = [disk EXCEPT !.model = classifier]
    /\ train_pc' = "done"
    /\ UNCHANGED <<train_data, preprocess_pipeline, transformed_data, label_encoder,
                   transformed_labels, classifier, call>>
    /\ UNCHANGED <<model_server, requests, running, serving, loads, first_load_error>>

\* ---- ModelServer ----
Unloaded ==
    /\ IsNull(model_server.preprocessor)
    /\ IsNull(model_server.label_encoder)
    /\ IsNull(model_server.model)

Loaded ==
    /\ ~IsNull(model_server.preprocessor)
    /\ ~IsNull(model_server.label_encoder)
    /\ ~IsNull(model_server.model)

\* a getter that loads on every call
NeedsLoad_always(field) ==
    TRUE

\* if self.preprocessor is None: / if self.model is None:
NeedsLoad(field) ==
    IsNull(field)

\* a load that clears the server when it fails
AfterFailedLoad_reset(server) ==
    [preprocessor |-> None, label_encoder |-> None, model |-> None]

\* the load raises before the assignment to the field: the fields are as before
AfterFailedLoad(server) ==
    server

\* joblib.load of the two files, the preprocessor's first
load_preprocessor_and_lbl_encoder ==
    IF IsNull(disk.preprocessor) THEN [err |-> "FileNotFoundError: preprocessor", val |-> <<>>]
    ELSE IF IsNull(disk.label_encoder) THEN [err |-> "FileNotFoundError: label_encoder", val |-> <<>>]
    ELSE [err |-> "", val |-> <<disk.preprocessor, disk.label_encoder>>]

Classifier_load ==
    IF IsNull(disk.model) THEN [err |-> "FileNotFoundError: model", val |-> None]
    ELSE [err |-> "", val |-> disk.model]

LoadErrors ==
    {"FileNotFoundError: preprocessor", "FileNotFoundError: label_encoder",
     "FileNotFoundError: model"}

\* RandomForestClassifier.predict_proba on one row, as a stand-in for the
\* forest: a pair (P(class 0), P(class 1)) in millionths.  It raises on a NaN
\* and on a table of another width; strict_names is whether the installed
\* scikit-learn also raises when the column names differ from those of fit.
Classifier_predict_proba(clf, X, strict_names) ==
    IF Len(X.cols) # Len(clf.feature_names_in) THEN [err |-> "ValueError: number of features", val |-> <<>>]
    ELSE IF strict_names /\ X.cols # clf.feature_names_in
    THEN [err |-> "ValueError: feature names", val |-> <<>>]
    ELSE IF \E i \in 1..NRows(X) : \E c \in Range(X.cols) : IsNull(X.rows[i][c])
    THEN [err |-> "ValueError: input contains NaN", val |-> <<>>]
    ELSE [err |-> "",
          val |-> [i \in 1..NRows(X) |->
                      LET score == SumSeq([j \in 1..Len(X.cols) |-> X.rows[i][X.cols[j]][1]])
                      IN  IF score > 1 THEN <<250000, 750000>>
                          ELSE IF score = 1 THEN <<499996, 500004>>
                          ELSE IF score = 0 THEN <<500000, 500000>>
                          ELSE <<750000, 250000>>]]

get_class_names(encoder) == encoder.given_classes[1]

Raised(pipe, e) == [pipe |-> pipe, err |-> e, val |-> <<>>]

\* np.round(p, 5) of a probability held in millionths: the nearest multiple
\* of ten, a half going to the even neighbour
round5(p) ==
    LET r == p % 10
        q == p - r
    IN  IF r > 5 \/ (r = 5 /\ (q \div 10) % 2 = 1) THEN q + 10 ELSE q

\* an arg-max that takes the last of equal maxima
idxmax_last(p) ==
    IF p[2] >= p[1] THEN 2 ELSE 1

\* DataFrame.idxmax(axis=1) over two columns: the first column holding the
\* row's maximum
idxmax(p) ==
    IF p[2] > p[1] THEN 2 ELSE 1

\* a probability table whose class columns are in the reverse order
ProbabilityTable_swapped(data, preds, class_names) ==
    [cols |-> <<id_field, class_names[2], class_names[1]>>,
     rows |-> [i \in 1..NRows(data) |->
                  [c \in {id_field} \cup Range(class_names) |->
                      IF c = id_field THEN data.rows[i][id_field]
                      ELSE IF c = class_names[1] THEN Some(round5(preds[i][2]))
                      ELSE Some(round5(preds[i][1]))]]]

\* preds_df = data[[id_field]].copy(); preds_df[class_names] = np.round(preds, 5)
ProbabilityTable(data, preds, class_names) ==
    [cols |-> <<id_field>> \o class_names,
     rows |-> [i \in 1..NRows(data) |->
                  [c \in {id_field} \cup Range(class_names) |->
                      IF c = id_field THEN data.rows[i][id_field]
                      ELSE IF c = class_names[1] THEN Some(round5(preds[i][1]))
                      ELSE Some(round5(preds[i][2]))]]]

\* the label of row i of a probability table: the class of its first maximum
RowLabel(preds_df, class_names, i) ==
    class_names[idxmax(<<preds_df.rows[i][class_names[1]][1],
                         preds_df.rows[i][class_names[2]][1]>>)]

\* response records that name the classes only
RecordsOf_unlabelled(preds_df, class_names) ==
    [i \in 1..NRows(preds_df) |->
        [id |-> preds_df.rows[i][id_field],
         label |-> "",
         probabilities |-> [k \in 1..2 |-> <<class_names[k], 0>>]]]

\* the response records made of a probability table: the id, the label as a
\* string (the class names of this model are strings already) and the
\* probability of each class, rounded once more
RecordsOf(preds_df, class_names) ==
    [i \in 1..NRows(preds_df) |->
        [id |-> preds_df.rows[i][id_field],
         label |-> RowLabel(preds_df, class_names, i),
         probabilities |-> [k \in 1..2 |->
                               <<class_names[k],
                                 round5(preds_df.rows[i][class_names[k]][1])>>]]]

PredictionRecords(data, preds, class_names) ==
    RecordsOf(ProbabilityTable(data, preds, class_names), class_names)

\* predict_proba and predict_for_online_inferences after _get_predictions
WithPredictions(pipe, preds, class_names, data) ==
    IF preds.err # "" THEN Raised(pipe, preds.err)
    ELSE IF ~HasCol(data, id_field) THEN Raised(pipe, "KeyError: id")
    ELSE IF Len(class_names) # 2 THEN Raised(pipe, "ValueError: columns must be same length as key")
    ELSE [pipe |-> pipe, err |-> "", val |-> PredictionRecords(data, preds.val, class_names)]

\* _get_predictions after preprocessor.transform(data) has returned t
WithTransformed(t, server, data, strict_names) ==
    IF t.err # "" THEN Raised(t.pipe, t.err)
    ELSE WithPredictions(t.pipe,
                         Classifier_predict_proba(
                             server.model[1],
                             Project(t.tab, SelectSeq(t.tab.cols,
                                                      LAMBDA c : c \notin {id_field, target_field})),
                             strict_names),
                         get_class_names(server.label_encoder[1]),
                         data)

\* predict_for_online_inferences once both artifacts are there
MakePredictions(server, data, strict_names) ==
    WithTransformed(Pipeline_transform(server.preprocessor[1], data), server, data, strict_names)

\* ---- the /infer handler on the event loop ----
NoResponse == [status |-> "", code |-> 0, detail |-> "", predictions |-> <<>>]

\* a handler whose exception is not caught: the process goes down with it
RequestBoundary_uncaught(e) ==
    [resp |-> NoResponse, serving |-> FALSE]

\* except Exception as exc: ... raise HTTPException(status_code=500, detail=...)
RequestBoundary(e) ==
    [resp |-> [status |-> "error", code |-> 500, detail |-> e, predictions |-> <<>>],
     serving |-> TRUE]

\* loads handed to a thread, the event loop taking other requests meanwhile
AwaitPoints_loads ==
    {"load_preprocessor", "load_model"}

\* the places where the handler gives the event loop back before it returns:
\* infer has no await in its body
AwaitPoints ==
    {}

Scheduled(r) ==
    /\ serving
    /\ r \in 1..Len(requests)
    /\ running \in {0, r}

\* the request the loop runs after request r has moved to pc
Yield(r, pc) == IF pc = "done" \/ pc \in AwaitPoints THEN 0 ELSE r

Goto(r, pc) ==
    /\ requests' = [requests EXCEPT ![r].pc = pc]
    /\ running' = Yield(r, pc)

Raise(r, e) ==
    /\ requests' = [requests EXCEPT ![r].pc = "done", ![r].resp = RequestBoundary(e).resp]
    /\ serving' = RequestBoundary(e).serving
    /\ running' = 0

\* a request arrives; the handler has not started.  The three flags record
\* what had happened when it arrived.
Receive(data) ==
    /\ serving
    /\ Len(requests) < MaxRequests
    /\ requests' = Append(requests,
                          [pc |-> "queued", data |-> data, resp |-> NoResponse,
                           unloaded_at_receipt |-> Unloaded,
                           after_failure |-> \E q \in 1..Len(requests) :
                                                 requests[q].resp.status = "error",
                           after_load_error |-> first_load_error # ""])
    /\ UNCHANGED <<disk, model_server, running, serving, loads, first_load_error>>
    /\ UNCHANGED trainVars
    /\ UNCHANGED call

\* _get_preprocessor_and_lbl_encoder: the test of the field
CheckPreprocessor(r) ==
    /\ Scheduled(r)
    /\ running = 0
    /\ requests[r].pc = "queued"
    /\ Goto(r, IF NeedsLoad(model_server.preprocessor) THEN "load_preprocessor" ELSE "get_model")
    /\ UNCHANGED <<disk, model_server, serving, loads, first_load_error>>
    /\ UNCHANGED trainVars
    /\ UNCHANGED call

\* ... and the load with the assignment to the two fields
LoadPreprocessor(r) ==
    /\ Scheduled(r)
    /\ requests[r].pc = "load_preprocessor"
    /\ LET got == load_preprocessor_and_lbl_encoder
       IN  IF got.err = ""
           THEN /\ model_server' = [model_server EXCEPT !.preprocessor = got.val[1],
                                                        !.label_encoder = got.val[2]]
                /\ loads' = [loads EXCEPT !.preprocessor = @ + 1]
                /\ Goto(r, "get_model")
                /\ UNCHANGED <<serving, first_load_error>>
           ELSE /\ model_server' = AfterFailedLoad(model_server)
                /\ first_load_error' = IF first_load_error = "" THEN got.err ELSE first_load_error
                /\ Raise(r, got.err)
                /\ UNCHANGED loads
    /\ UNCHANGED disk
    /\ UNCHANGED trainVars
    /\ UNCHANGED call

\* _get_model: the test of the field
CheckModel(r) ==
    /\ Scheduled(r)
    /\ requests[r].pc = "get_model"
    /\ Goto(r, IF NeedsLoad(model_server.model) THEN "load_model" ELSE "predict")
    /\ UNCHANGED <<disk, model_server, serving, loads, first_load_error>>
    /\ UNCHANGED trainVars
    /\ UNCHANGED call

LoadModel(r) ==
    /\ Scheduled(r)
    /\ requests[r].pc = "load_model"
    /\ LET got == Classifier_load
       IN  IF got.err = ""
           THEN /\ model_server' = [model_server EXCEPT !.model = got.val]
                /\ loads' = [loads EXCEPT !.model = @ + 1]
                /\ Goto(r, "predict")
                /\ UNCHANGED <<serving, first_load_error>>
           ELSE /\ model_server' = AfterFailedLoad(model_server)
                /\ first_load_error' = IF first_load_error = "" THEN got.err ELSE first_load_error
                /\ Raise(r, got.err)
                /\ UNCHANGED loads
    /\ UNCHANGED disk
    /\ UNCHANGED trainVars
    /\ UNCHANGED call

\* the end of the handler, got being what predict_for_online_inferences gave
Respond(r, got) ==
    /\ model_server' = [model_server EXCEPT !.preprocessor = Some(got.pipe)]
    /\ IF got.err = ""
       THEN /\ requests' = [requests EXCEPT
                   ![r].pc = "done",
                   ![r].resp = [status |-> "success", code |-> 200, detail |-> "",
                                predictions |-> got.val]]
            /\ running' = 0
            /\ UNCHANGED serving
       ELSE Raise(r, got.err)

\* the rest of the handler: the predictions and the response
Predict(r) ==
    /\ Scheduled(r)
    /\ requests[r].pc = "predict"
    /\ \E strict_names \in BOOLEAN :
          Respond(r, MakePredictions(model_server, requests[r].data, strict_names))
    /\ UNCHANGED <<disk, loads, first_load_error>>
    /\ UNCHANGED trainVars
    /\ UNCHANGED call

\* a health check that answers only once the artifacts are loaded
ping_when_loaded ==
    IF Loaded THEN [code |-> 200, body |-> [message |-> "Pong!"]]
    ELSE [code |-> 503, body |-> [message |-> "not ready"]]

\* async def ping: return {"message": "Pong!"}, sent with FastAPI's status 200
ping ==
    [code |-> 200, body |-> [message |-> "Pong!"]]

\* GET /ping, taken by the event loop when no /infer handler is running
Ping ==
    /\ serving
    /\ running = 0
    /\ call' = [op |-> "ping", arg |-> EmptyTable, err |-> "", tab |-> ping]
    /\ UNCHANGED trainVars
    /\ UNCHANGED serveVars

Next ==
    \/ Ping
    \/ TrainPreprocess
    \/ TrainBalance
    \/ TrainFit
    \/ SavePreprocessor
    \/ SaveLabelEncoder
    \/ SaveModel
    \/ \E data \in RequestPayloads : Receive(data)
    \/ \E r \in 1..MaxRequests : CheckPreprocessor(r)
    \/ \E r \in 1..MaxRequests : LoadPreprocessor(r)
    \/ \E r \in 1..MaxRequests : CheckModel(r)
    \/ \E r \in 1..MaxRequests : LoadModel(r)
    \/ \E r \in 1..MaxRequests : Predict(r)

Spec == Init /\ [][Next]_vars

(***************************************************************************)
(* ModelServer called directly (test.py, a batch job): a call runs to its  *)
(* end, the lazy loads included, beside the training run that writes the   *)
(* artifact files.                                                         *)
(***************************************************************************)
MaxCallRows == 2

\* rows whose scores are below zero, above one, zero and one
CallValues ==
    <<<<Some(0), Some(5), Some("a")>>, <<Some(9), None, Some("z")>>,
      <<Some(2), Some(5), Some("z")>>, <<Some(2), Some(5), Some("a")>>>>

\* row i of a call's table carries the id 6 + i
CallRow(i, k) ==
    [id |-> Some(6 + i), n1 |-> CallValues[k][1], n2 |-> CallValues[k][2],
     c1 |-> CallValues[k][3]]

CallTable(layout, ks) ==
    [cols |-> layout,
     rows |-> [i \in 1..Len(ks) |-> [c \in Range(layout) |-> CallRow(i, ks[i])[c]]]]

\* X with the column c holding v in every row
WithColumn(X, c, v) == SetColumn(X, c, [i \in 1..NRows(X) |-> v])

\* X with every id raised by d
WithIds(X, d) ==
    [cols |-> X.cols,
     rows |-> [i \in 1..NRows(X) |->
                 [c \in Range(X.cols) |->
                     IF c = id_field THEN Some(X.rows[i][c][1] + d) ELSE X.rows[i][c]]]]

\* the tables handed to the server: every choice of distinct rows in the
\* schema's layout, a table without the id and one without a feature, and
\* the first row under another id, with a target column and with a column
\* the schema does not declare
CallTables ==
    {CallTable(<<"id", "n1", "n2", "c1">>, ks) :
        ks \in {f \in UNION {[1..n -> 1..Len(CallValues)] : n \in 1..MaxCallRows} :
                   \A i, j \in DOMAIN f : f[i] = f[j] => i = j}}
    \cup {CallTable(<<"n1", "n2", "c1">>, <<1>>), CallTable(<<"id", "n1", "n2">>, <<1>>)}
    \cup {WithIds(CallTable(<<"id", "n1", "n2", "c1">>, <<1>>), 1),
          WithColumn(CallTable(<<"id", "n1", "n2", "c1">>, <<1>>), target_field, Some("B")),
          WithColumn(CallTable(<<"id", "n1", "n2", "c1">>, <<1>>), "x", Some(1))}

Called(server, e, tab) == [server |-> server, err |-> e, tab |-> tab]

\* _get_preprocessor_and_lbl_encoder, then _get_model
GetArtifacts(server) ==
    LET l1 == load_preprocessor_and_lbl_encoder
        e1 == IF NeedsLoad(server.preprocessor) THEN l1.err ELSE ""
        s1 == IF ~NeedsLoad(server.preprocessor) THEN server
              ELSE IF l1.err = ""
              THEN [server EXCEPT !.preprocessor = l1.val[1], !.label_encoder = l1.val[2]]
              ELSE AfterFailedLoad(server)
        l2 == Classifier_load
    IN  IF e1 # "" THEN [server |-> s1, err |-> e1]
        ELSE IF ~NeedsLoad(s1.model) THEN [server |-> s1, err |-> ""]
        ELSE IF l2.err = "" THEN [server |-> [s1 EXCEPT !.model = l2.val], err |-> ""]
        ELSE [server |-> AfterFailedLoad(s1), err |-> l2.err]

\* predict_proba once _get_predictions has returned preds
ProbaAfter(server, preds, class_names, data) ==
    IF preds.err # "" THEN Called(server, preds.err, EmptyTable)
    ELSE IF ~HasCol(data, id_field) THEN Called(server, "KeyError: id", EmptyTable)
    ELSE IF Len(class_names) # 2
    THEN Called(server, "ValueError: columns must be same length as key", EmptyTable)
    ELSE Called(server, "", ProbabilityTable(data, preds.val, class_names))

\* _get_predictions once preprocessor.transform(data) has returned t
ProbaTransformed(t, server, data, strict_names) ==
    IF t.err # "" THEN Called([server EXCEPT !.preprocessor = Some(t.pipe)], t.err, EmptyTable)
    ELSE ProbaAfter([server EXCEPT !.preprocessor = Some(t.pipe)],
                    Classifier_predict_proba(
                        server.model[1],
                        Project(t.tab, SelectSeq(t.tab.cols,
                                                 LAMBDA c : c \notin {id_field, target_field})),
                        strict_names),
                    get_class_names(server.label_encoder[1]),
                    data)

\* _get_predictions once the getters have returned g
ProbaLoaded(g, data, strict_names) ==
    IF g.err # "" THEN Called(g.server, g.err, EmptyTable)
    ELSE ProbaTransformed(Pipeline_transform(g.server.preprocessor[1], data),
                          g.server, data, strict_names)

ModelServer_predict_proba(server, data, strict_names) ==
    ProbaLoaded(GetArtifacts(server), data, strict_names)

\* preds_df = data[[id_field]].copy(); preds_df["prediction"] = ....idxmax(axis=1)
PredictionTable(data, preds_df, class_names) ==
    [cols |-> <<id_field, "prediction">>,
     rows |-> [i \in 1..NRows(data) |->
                  [c \in {id_field, "prediction"} |->
                      IF c = id_field THEN data.rows[i][id_field]
                      ELSE Some(RowLabel(preds_df, class_names, i))]]]

\* predict once its call of predict_proba has returned p
PredictAfter(p, data, class_names) ==
    IF p.err # "" THEN p
    ELSE Called(p.server, "", PredictionTable(data, p.tab, class_names))

\* predict: the class names are read from self.label_encoder, and the id
\* column is taken, before predict_proba is called
ModelServer_predict(server, data, strict_names) ==
    IF IsNull(server.label_encoder)
    THEN Called(server, "AttributeError: 'NoneType' object has no attribute 'given_classes'",
                EmptyTable)
    ELSE IF ~HasCol(data, id_field) THEN Called(server, "KeyError: id", EmptyTable)
    ELSE PredictAfter(ModelServer_predict_proba(server, data, strict_names), data,
                      get_class_names(server.label_encoder[1]))

\* predict_for_online_inferences once its call of predict_proba has returned p:
\* the list of records, held as a table of the three keys
OnlineAfter(p) ==
    IF p.err # "" THEN p
    ELSE Called(p.server, "",
                [cols |-> <<id_field, "label", "probabilities">>,
                 rows |-> RecordsOf(p.tab, get_class_names(p.server.label_encoder[1]))])

ModelServer_predict_for_online_inferences(server, data, strict_names) ==
    OnlineAfter(ModelServer_predict_proba(server, data, strict_names))

\* the table of the caller after a method of the server: the methods hand
\* it to preprocessor.transform once the artifacts are there, and read it
ModelServer_argument(server, data) ==
    IF IsNull(server.preprocessor) THEN data
    ELSE Pipeline_transform_argument(server.preprocessor[1], data)

Return(op, data, got) ==
    /\ model_server' = got.server
    /\ call' = [op |-> op, arg |-> data, err |-> got.err, tab |-> got.tab,
                arg_after |-> ModelServer_argument(got.server, data)]
    /\ UNCHANGED <<disk, requests, running, serving, loads, first_load_error>>
    /\ UNCHANGED trainVars

CallPredictProba(data) ==
    \E strict_names \in BOOLEAN :
        Return("predict_proba", data, ModelServer_predict_proba(model_server, data, strict_names))

CallPredict(data) ==
    \E strict_names \in BOOLEAN :
        Return("predict", data, ModelServer_predict(model_server, data, strict_names))

CallOnline(data) ==
    \E strict_names \in BOOLEAN :
        Return("predict_for_online_inferences", data,
               ModelServer_predict_for_online_inferences(model_server, data, strict_names))

NextCalls ==
    \/ TrainPreprocess
    \/ TrainBalance
    \/ TrainFit
    \/ SavePreprocessor
    \/ SaveLabelEncoder
    \/ SaveModel
    \/ \E data \in CallTables : CallPredictProba(data)
    \/ \E data \in CallTables : CallPredict(data)
    \/ \E data \in CallTables : CallOnline(data)

SpecCalls == Init /\ [][NextCalls]_vars

(***************************************************************************)
(* Properties of the serving process (Spec, FairSpec)                      *)
(***************************************************************************)
Done(r) == requests[r].pc = "done"

Succeeded(r) == Done(r) /\ requests[r].resp.status = "success"

Failed(r) == Done(r) /\ requests[r].resp.status = "error"

InHandler(r) == requests[r].pc \in {"load_preprocessor", "get_model", "load_model", "predict"}

\* C3: with several requests pending at an unloaded server, under every
\* interleaving at most one handler is between its start and its end at a
\* time, and each of the two loads is performed at most once.
C3_AtMostOneLoad ==
    /\ loads.preprocessor <= 1
    /\ loads.model <= 1
    /\ Cardinality({r \in 1..Len(requests) : InHandler(r)}) <= 1
    /\ \A r \in 1..Len(requests) : InHandler(r) => running = r

\* two requests arrived while the server was unloaded, both were answered,
\* and each load has run once
C3_Witness ==
    /\ Len(requests) = 2
    /\ requests[1].unloaded_at_receipt /\ requests[2].unloaded_at_receipt
    /\ Succeeded(1) /\ Succeeded(2)
    /\ loads = [preprocessor |-> 1, model |-> 1]

\* C4: whatever fails in a handler, the process stays up; the request gets an
\* error response (status 500 with the error's text) and the answers already
\* given to other requests are untouched; while a request is unanswered, the
\* event loop has a request it can run (the guards of the handler's steps hold
\* for it), so a failure never blocks the requests that come after it.
C4_ErrorsStayInRequest ==
    /\ [](serving)
    /\ [](\A r \in 1..Len(requests) :
             Done(r) =>
                 \/ requests[r].resp.status = "success" /\ requests[r].resp.code = 200
                 \/ /\ requests[r].resp.status = "error"
                    /\ requests[r].resp.code = 500
                    /\ requests[r].resp.detail # "")
    /\ [][\A r \in 1..Len(requests) : Done(r) => requests'[r] = requests[r]]_vars
    /\ []((\E r \in 1..Len(requests) : ~Done(r)) =>
             \E r \in 1..Len(requests) :
                 /\ ~Done(r)
                 /\ Scheduled(r)
                 /\ requests[r].pc = "queued" => running = 0)

\* a request failed, and a request that arrived after that failure succeeded
C4_Witness ==
    \E r1, r2 \in 1..Len(requests) :
        /\ Failed(r1)
        /\ requests[r1].resp.detail \notin LoadErrors
        /\ requests[r2].after_failure
        /\ Succeeded(r2)

\* C5: no step of the serving process changes what was learned: the loaded
\* preprocessor (its fill_vals and top_cat_by_ohe_col among the rest), the
\* loaded label encoder (its given_classes) and the loaded classifier are the
\* same after every step, also with several requests in flight, and so are
\* the artifact files and the training run's fitted objects during requests.
C5_NoRelearning ==
    [][/\ ~IsNull(model_server.preprocessor) =>
             /\ ~IsNull(model_server'.preprocessor)
             /\ model_server'.preprocessor[1].fill_vals = model_server.preprocessor[1].fill_vals
             /\ model_server'.preprocessor[1].top_cat_by_ohe_col
                    = model_server.preprocessor[1].top_cat_by_ohe_col
             /\ model_server'.preprocessor = model_server.preprocessor
       /\ ~IsNull(model_server.label_encoder) =>
             /\ ~IsNull(model_server'.label_encoder)
             /\ model_server'.label_encoder[1].given_classes
                    = model_server.label_encoder[1].given_classes
       /\ ~IsNull(model_server.model) => model_server'.model = model_server.model
       /\ requests' # requests =>
             /\ disk' = disk
             /\ preprocess_pipeline' = preprocess_pipeline
             /\ label_encoder' = label_encoder]_vars

\* a record with a category and a missing number the training data did not
\* have was answered, and the loaded preprocessor is still the saved one
C5_Witness ==
    \E r \in 1..Len(requests) :
        /\ Succeeded(r)
        /\ requests[r].data.rows[1]["c1"] = Some("z")
        /\ IsNull(requests[r].data.rows[1]["n2"])
        /\ "z" \notin Range(model_server.preprocessor[1].top_cat_by_ohe_col["c1"])
        /\ model_server.preprocessor = disk.preprocessor
        /\ model_server.label_encoder = disk.label_encoder

(***************************************************************************)
(* Properties of the fitted pipeline (SpecPipe)                            *)
(***************************************************************************)
HasAllFeatures(X) == \A c \in Range(features) : HasCol(X, c)

\* C6: a transform of the training table with the fitted state returns the
\* table fit_transform returned for it: same columns, same order, same values.
C6_ReplayFidelity ==
    (/\ call.op = "transform"
     /\ call.arg \in {train_data, DataFrame_drop(train_data, id_field)}) =>
        /\ call.err = ""
        /\ call.tab = transformed_data

\* the replayed table has two rows, a missing indicator and a filled-in number
C6_Witness ==
    /\ call.op = "transform"
    /\ call.arg = train_data
    /\ call.err = ""
    /\ call.tab = transformed_data
    /\ NRows(call.tab) = 2
    /\ HasCol(call.tab, na_name("n1"))
    /\ \E i \in 1..2 : IsNull(train_data.rows[i]["n1"]) /\ ~IsNull(call.tab.rows[i]["n1"])

\* the layout the declared feature order and the fitted lists give: the numeric
\* features, their missing indicators, then the indicators of each categorical
\* feature's learned categories
DeclaredLayout ==
    LET na == SelectSeq(numeric_features,
                        LAMBDA var : var \in Range(preprocess_pipeline.variables_))
        top == preprocess_pipeline.top_cat_by_ohe_col["c1"]
    IN  numeric_features
        \o [i \in 1..Len(na) |-> na_name(na[i])]
        \o [i \in 1..Len(top) |-> ohe_name("c1", top[i])]

\* C7: the columns of every table the pipeline produces, at fit time and at
\* serve time, are in the order given by the declared feature order and the
\* fitted category lists, whatever the order of the input's rows and columns
\* and whatever undeclared columns it has; so serve and training layouts agree.
C7_ColumnOrder ==
    /\ preprocess_pipeline.fitted => transformed_data.cols = DeclaredLayout
    /\ (call.op = "transform" /\ HasAllFeatures(call.arg)) =>
          /\ call.err = ""
          /\ call.tab.cols = DeclaredLayout
          /\ call.tab.cols = transformed_data.cols

IndicatorNames(col) ==
    LET top == preprocess_pipeline.top_cat_by_ohe_col[col]
    IN  [i \in 1..Len(top) |-> ohe_name(col, top[i])]

IndicatorSum(row, col) ==
    SumSeq([i \in 1..Len(IndicatorNames(col)) |-> row[IndicatorNames(col)[i]][1]])

IndicatorsOk(tab, col) ==
    /\ Cardinality(Range(IndicatorNames(col))) = Len(preprocess_pipeline.top_cat_by_ohe_col[col])
    /\ \A name \in Range(IndicatorNames(col)) : HasCol(tab, name)
    /\ \A i \in 1..NRows(tab) :
          /\ \A name \in Range(IndicatorNames(col)) : tab.rows[i][name] \in {Some(0), Some(1)}
          /\ IndicatorSum(tab.rows[i], col) <= 1

\* C8: with K learned categories of a categorical feature, the one-hot stage
\* adds exactly the K columns <feature>_<category>, each 0 or 1 and at most one
\* of them 1 in a row; they are all 0, without an error, exactly when the row's
\* value is not a learned category.  The pipeline's output has these K columns
\* too, and a row whose raw value is a learned category has its indicator set.
C8_OneHotWidth ==
    \A col \in Range(categorical_features) :
        LET top == preprocess_pipeline.top_cat_by_ohe_col[col]
        IN  /\ (call.op = "one_hot" /\ HasCol(call.arg, col)) =>
                  /\ call.err = ""
                  /\ call.tab.cols = call.arg.cols \o IndicatorNames(col)
                  /\ IndicatorsOk(call.tab, col)
                  /\ \A i \in 1..NRows(call.arg) :
                        (IndicatorSum(call.tab.rows[i], col) = 0)
                            <=> (call.arg.rows[i][col] \notin {Some(cat) : cat \in Range(top)})
            /\ (call.op = "transform" /\ HasAllFeatures(call.arg)) =>
                  /\ call.err = ""
                  /\ IndicatorsOk(call.tab, col)
                  /\ Len(call.tab.cols) = Len(numeric_features)
                        + Len(preprocess_pipeline.variables_) + Len(top)
                  /\ \A i \in 1..NRows(call.arg) :
                        (call.arg.rows[i][col] \in {Some(cat) : cat \in Range(top)})
                            => IndicatorSum(call.tab.rows[i], col) = 1

\* two categories were learned and the row's value is neither: both indicators are 0
C8_Witness ==
    /\ call.op = "one_hot"
    /\ Len(preprocess_pipeline.top_cat_by_ohe_col["c1"]) = 2
    /\ call.arg.cols = <<"c1">>
    /\ call.arg.rows[1]["c1"] = Some("z")
    /\ call.err = ""
    /\ Len(call.tab.cols) = 3
    /\ IndicatorSum(call.tab.rows[1], "c1") = 0

\* C9: a table without a column that was one-hot encoded at fit time makes the
\* one-hot stage, and the pipeline, fail; a transform that returns a table
\* returns one as wide as the training-time table.
C9_MissingColumnFails ==
    /\ \A col \in Range(categorical_features) :
          (/\ call.op \in {"one_hot", "transform"}
           /\ Len(preprocess_pipeline.top_cat_by_ohe_col[col]) > 0
           /\ ~HasCol(call.arg, col)) => call.err # ""
    /\ (call.op = "transform" /\ call.err = "") =>
          Len(call.tab.cols) = Len(transformed_data.cols)

\* the one-hot stage was given a table without the fitted column and raised
C9_Witness ==
    /\ call.op = "one_hot"
    /\ ~HasCol(call.arg, "c1")
    /\ Len(preprocess_pipeline.top_cat_by_ohe_col["c1"]) > 0
    /\ call.err = "Exception: fitted one-hot-encoded column does not exist"

(***************************************************************************)
(* Properties of the label encoder (SpecLabel)                             *)
(***************************************************************************)
LabelValues(X) == {X.rows[i][target_field][1] : i \in 1..NRows(X)}

TwoClassTarget ==
    /\ Cardinality(LabelValues(train_data)) = 2
    /\ target_class \in LabelValues(train_data)

\* C10: for a training target column with two classes, one of them the target
\* class, fit leaves the target class as the last of the two given_classes, and
\* transform maps every target-class label to 1 and every other label to 0,
\* whichever class comes first in the data.
C10_LabelOrdering ==
    (TwoClassTarget /\ ~IsNull(label_encoder.given_classes)) =>
        /\ Len(label_encoder.given_classes[1]) = 2
        /\ label_encoder.given_classes[1][2] = target_class
        /\ call.op = "label_transform" =>
              /\ call.err = ""
              /\ call.tab.cols = call.arg.cols
              /\ \A i \in 1..NRows(call.arg) :
                    call.tab.rows[i][target_field] =
                        IF call.arg.rows[i][target_field] = Some(target_class)
                        THEN Some(1) ELSE Some(0)

\* the target class comes first in the data, and the training column is transformed
C10_Witness ==
    /\ TwoClassTarget
    /\ train_data.rows[1][target_field] = Some(target_class)
    /\ NRows(train_data) >= 3
    /\ call.op = "label_transform"
    /\ call.arg = train_data
    /\ call.err = ""
    /\ call.tab.rows[1][target_field] = Some(1)
    /\ \E i \in 1..NRows(train_data) : call.tab.rows[i][target_field] = Some(0)

\* C11: fit succeeds only on a target column with exactly two distinct values;
\* with one, or more than two, it fails and leaves no fitted encoder behind.
C11_FitNeedsTwoClasses ==
    ~IsNull(label_encoder.given_classes) => Cardinality(LabelValues(train_data)) = 2

(***************************************************************************)
(* Properties of the direct calls (SpecCalls)                              *)
(***************************************************************************)
CallSucceeded(ops) == call.op \in ops /\ call.err = ""

\* what predict_proba gives for the argument of the last call
CallProbabilities == ModelServer_predict_proba(model_server, call.arg, FALSE).tab

CallClassNames == get_class_names(model_server.label_encoder[1])

\* the class the last call reported for row i
ReportedClass(i) ==
    IF call.op = "predict" THEN call.tab.rows[i]["prediction"][1] ELSE call.tab.rows[i].label

LargerClass(P, names, i) ==
    IF P.rows[i][names[2]][1] > P.rows[i][names[1]][1] THEN names[2] ELSE names[1]

TiedRow(P, names, i) == P.rows[i][names[2]][1] = P.rows[i][names[1]][1]

\* C12: in every successful predict and predict_for_online_inferences call the
\* class reported for a row is the class whose probability in predict_proba's
\* table is the larger one, and the negative class (the first of the label
\* encoder's classes) when the two are equal.
C12_ArgMaxLabel ==
    CallSucceeded({"predict", "predict_for_online_inferences"}) =>
        /\ NRows(call.tab) = NRows(call.arg)
        /\ \A i \in 1..NRows(call.arg) :
              ReportedClass(i) = LargerClass(CallProbabilities, CallClassNames, i)

\* a two-row call whose first row is a tie and whose second row is not
C12_Witness ==
    /\ CallSucceeded({"predict"})
    /\ NRows(call.arg) = 2
    /\ TiedRow(CallProbabilities, CallClassNames, 1)
    /\ ReportedClass(1) = CallClassNames[1]
    /\ ReportedClass(2) = CallClassNames[2]

OneRow(X, i) == [cols |-> X.cols, rows |-> <<X.rows[i]>>]

ScoreTransformed(tab, server) ==
    Classifier_predict_proba(server.model[1],
                             Project(tab, SelectSeq(tab.cols,
                                                    LAMBDA c : c \notin {id_field, target_field})),
                             FALSE).val[1]

\* the classifier's two probabilities for row i of X on its own
RowProbabilities(X, i) ==
    ScoreTransformed(Pipeline_transform(model_server.preprocessor[1], OneRow(X, i)).tab,
                     model_server)

\* C13: a successful predict_proba returns one row per input row in input
\* order, with the input's id in the id column, and after the id column
\* exactly the label encoder's two class names, the negative class first and
\* the positive (target) class second, row i holding the classifier's
\* probabilities for input row i (to five decimal places).
C13_ProbabilityTable ==
    CallSucceeded({"predict_proba"}) =>
        /\ call.tab.cols = <<id_field>> \o CallClassNames
        /\ Len(CallClassNames) = 2
        /\ CallClassNames[2] = target_class
        /\ CallClassNames[1] # target_class
        /\ NRows(call.tab) = NRows(call.arg)
        /\ \A i \in 1..NRows(call.arg) :
              /\ call.tab.rows[i][id_field] = call.arg.rows[i][id_field]
              /\ \A k \in 1..2 :
                    call.tab.rows[i][CallClassNames[k]]
                        = Some(round5(RowProbabilities(call.arg, i)[k]))

\* a two-row call whose rows have different ids and different probabilities,
\* one of them changed by the rounding
C13_Witness ==
    /\ CallSucceeded({"predict_proba"})
    /\ NRows(call.arg) = 2
    /\ call.tab.rows[1][id_field] # call.tab.rows[2][id_field]
    /\ call.tab.rows[1][CallClassNames[2]] # call.tab.rows[2][CallClassNames[2]]
    /\ RowProbabilities(call.arg, 1)[2] # round5(RowProbabilities(call.arg, 1)[2])

ArtifactsSaved ==
    ~IsNull(disk.preprocessor) /\ ~IsNull(disk.label_encoder) /\ ~IsNull(disk.model)

WellFormed(X) == X.cols = <<id_field>> \o features

\* C15: with the artifacts saved, predict on a well-formed table returns one
\* row per input row with the id and the class of the larger probability,
\* whatever the server has loaded so far, a freshly constructed server
\* included.
C15_PredictInAnyLoadState ==
    [][(/\ ArtifactsSaved
        /\ call' # call
        /\ call'.op = "predict"
        /\ WellFormed(call'.arg))
       => (/\ call'.err = ""
           /\ call'.tab.cols = <<id_field, "prediction">>
           /\ NRows(call'.tab) = NRows(call'.arg))]_vars

(***************************************************************************)
(* The schema document: SchemaModel validates it, and                      *)
(* BinaryClassificationSchema reads the fields out of it.  A key that may  *)
(* be absent is a cell.                                                    *)
(***************************************************************************)
MaxPredictors == 2

MainInput == "binaryClassificationBaseMainInput"

PredictorFields ==
    [fieldName : {"n1", "id", "y", ""},
     dataType : {"NUMERIC", "INT", "REAL", "CATEGORICAL", "TEXT"}]

PredictorLists == UNION {[1..n -> PredictorFields] : n \in 0..MaxPredictors}

GoodPredictors ==
    <<[fieldName |-> "n1", dataType |-> "NUMERIC"],
      [fieldName |-> "c1", dataType |-> "CATEGORICAL"]>>

InputDataset(i, t, c, ps) ==
    [idField |-> i, targetField |-> t, targetClass |-> c, predictorFields |-> ps]

SchemaDocument(pc, v, keys, ds) ==
    [problemCategory |-> pc, version |-> v, inputDatasets |-> [k \in keys |-> ds]]

\* the documents given to the validator: every head over a good predictor
\* list, and every predictor list under a good head
SchemaDocuments ==
    {SchemaDocument(pc, v, keys, InputDataset(i, t, c, GoodPredictors)) :
        pc \in {"binary_classification_base", "regression_base"},
        v \in {"1.0", "2.0"},
        keys \in SUBSET {MainInput, "other"},
        i \in {None, Some(""), Some("id")},
        t \in {None, Some(""), Some("y")},
        c \in {None, Some(0), Some(1)}}
    \cup {SchemaDocument("binary_classification_base", "1.0", {MainInput},
                         InputDataset(Some("id"), Some("y"), Some(1), ps)) :
             ps \in PredictorLists}

ErrorAt(loc, msg) == <<[loc |-> loc, msg |-> msg]>>

\* the fields of InputDataset that pydantic finds missing
RequiredErrors(ds) ==
    (IF IsNull(ds.idField) THEN ErrorAt("idField", "field required") ELSE <<>>)
    \o (IF IsNull(ds.targetField) THEN ErrorAt("targetField", "field required") ELSE <<>>)
    \o (IF IsNull(ds.targetClass) THEN ErrorAt("targetClass", "field required") ELSE <<>>)

\* the loop over predictorFields: the first field without a name or with an
\* unknown dataType
predictor_error(fields) ==
    LET bad == {k \in 1..Len(fields) :
                    fields[k].fieldName = ""
                    \/ fields[k].dataType \notin {"CATEGORICAL", "INT", "REAL", "NUMERIC"}}
        k == CHOOSE m \in bad : \A n \in bad : m <= n
    IN  IF bad = {} THEN ""
        ELSE IF fields[k].fieldName = "" THEN "predictorFields must contain a fieldName"
        ELSE "Invalid dataType for predictorFields"

\* if not input_dataset.targetClass: the int 0 counts as not specified
target_class_error(c) ==
    IF c = 0 THEN "targetClass must be specified" ELSE ""

\* SchemaModel.validate_input_datasets: the message of the first check that
\* fails, "" when none does
validate_input_datasets(v) ==
    IF DOMAIN v = {} THEN "inputDatasets must not be empty"
    ELSE IF DOMAIN v # {MainInput}
    THEN "inputDatasets must have a single key binaryClassificationBaseMainInput"
    ELSE IF v[MainInput].idField[1] = "" THEN "idField must be specified"
    ELSE IF v[MainInput].targetField[1] = "" THEN "targetField must be specified"
    ELSE IF target_class_error(v[MainInput].targetClass[1]) # ""
    THEN target_class_error(v[MainInput].targetClass[1])
    ELSE IF Len(v[MainInput].predictorFields) = 0 THEN "predictorFields must not be empty"
    ELSE predictor_error(v[MainInput].predictorFields)

\* SchemaModel(**schema_dict): the errors of the ValidationError, field by
\* field; a field's validator runs only when the field has its declared type
SchemaModel(doc) ==
    (IF doc.problemCategory # "binary_classification_base"
     THEN ErrorAt("problemCategory", "problemCategory must be binary_classification_base")
     ELSE <<>>)
    \o (IF doc.version # "1.0" THEN ErrorAt("version", "version must be 1.0") ELSE <<>>)
    \o (IF \E k \in DOMAIN doc.inputDatasets : RequiredErrors(doc.inputDatasets[k]) # <<>>
        THEN RequiredErrors(doc.inputDatasets[CHOOSE k \in DOMAIN doc.inputDatasets :
                                                  RequiredErrors(doc.inputDatasets[k]) # <<>>])
        ELSE IF validate_input_datasets(doc.inputDatasets) # ""
        THEN ErrorAt("inputDatasets", validate_input_datasets(doc.inputDatasets))
        ELSE <<>>)

\* BinaryClassificationSchema._get_features_of_type
get_features_of_type(schema, types) ==
    LET fields == SelectSeq(schema.inputDatasets[MainInput].predictorFields,
                            LAMBDA f : f.dataType \in types)
    IN  [k \in 1..Len(fields) |-> fields[k].fieldName]

\* BinaryClassificationSchema: the properties of a loaded document
BinaryClassificationSchema(schema) ==
    [id_field |-> schema.inputDatasets[MainInput].idField[1],
     target_field |-> schema.inputDatasets[MainInput].targetField[1],
     target_class |-> schema.inputDatasets[MainInput].targetClass[1],
     numeric_features |-> get_features_of_type(schema, {"NUMERIC", "INT", "REAL"}),
     categorical_features |-> get_features_of_type(schema, {"CATEGORICAL"}),
     features |-> get_features_of_type(schema, {"NUMERIC", "INT", "REAL"})
                  \o get_features_of_type(schema, {"CATEGORICAL"})]

\* the document is validated: the call's table holds the error list
ValidateSchema(doc) ==
    /\ call.op = "none"
    /\ call' = [op |-> "validate_schema", arg |-> doc,
                err |-> IF SchemaModel(doc) = <<>> THEN "" ELSE "ValidationError",
                tab |-> [cols |-> <<"loc", "msg">>, rows |-> SchemaModel(doc)]]
    /\ UNCHANGED trainVars
    /\ UNCHANGED serveVars

\* an accepted document is loaded: the call's table holds the schema object
LoadSchema ==
    /\ call.op = "validate_schema"
    /\ call.err = ""
    /\ call' = [op |-> "load_schema", arg |-> call.arg, err |-> "",
                tab |-> BinaryClassificationSchema(call.arg)]
    /\ UNCHANGED trainVars
    /\ UNCHANGED serveVars

\* the tables given to validate_data: one row under every choice of the
\* schema's columns and a column the schema does not know
DataTables ==
    {[cols |-> SelectSeq(<<"id", "n1", "n2", "c1", "y", "x">>, LAMBDA c : c \in present),
      rows |-> <<[c \in present |-> ServeRow(<<Some(0), Some(5), Some("a")>>)[c]]>>] :
        present \in SUBSET {"id", "n1", "n2", "c1", "y", "x"}}

\* the message of the ValueError for a missing field
NotPresent(field) ==
    IF field = id_field THEN "ID field 'id' is not present in the given data"
    ELSE IF field = target_field THEN "Target field 'y' is not present in the given data"
    ELSE IF field = "n1" THEN "Feature 'n1' is not present in the given data"
    ELSE IF field = "n2" THEN "Feature 'n2' is not present in the given data"
    ELSE "Feature 'c1' is not present in the given data"

\* a validator that asks for the target column of every table
DataValidator_target_always(data, is_train) ==
    LET missing == SelectSeq(<<id_field, target_field>> \o features,
                             LAMBDA f : ~HasCol(data, f))
    IN  IF missing = <<>> THEN "" ELSE NotPresent(missing[1])

\* DataValidator.validate_data: the id, the target of a training table, then
\* the features in the order of schema.features; the first one missing raises
DataValidator(data, is_train) ==
    IF ~HasCol(data, id_field) THEN NotPresent(id_field)
    ELSE IF is_train /\ ~HasCol(data, target_field) THEN NotPresent(target_field)
    ELSE LET missing == SelectSeq(features, LAMBDA f : ~HasCol(data, f))
         IN  IF missing = <<>> THEN "" ELSE NotPresent(missing[1])

\* data_utils.validate_data: the table itself when the validator accepts it
ValidateData(data, is_train) ==
    /\ call.op = "none"
    /\ call' = [op |-> IF is_train THEN "validate_data(is_train=True)"
                       ELSE "validate_data(is_train=False)",
                arg |-> data,
                err |-> DataValidator(data, is_train),
                tab |-> IF DataValidator(data, is_train) = "" THEN data ELSE EmptyTable]
    /\ UNCHANGED trainVars
    /\ UNCHANGED serveVars

NextSchema ==
    \/ \E doc \in SchemaDocuments : ValidateSchema(doc)
    \/ LoadSchema
    \/ \E data \in DataTables : \E is_train \in BOOLEAN : ValidateData(data, is_train)

SpecSchema == Init /\ [][NextSchema]_vars

(***************************************************************************)
(* Properties of the schema (SpecSchema)                                   *)
(***************************************************************************)
NoDuplicates(seq) == \A i, j \in 1..Len(seq) : seq[i] = seq[j] => i = j

\* C16: in every schema that was accepted and loaded, numeric_features and
\* categorical_features are disjoint, no name occurs twice in features, and
\* neither id_field nor target_field is a feature.
C16_SchemaWellFormed ==
    call.op = "load_schema" =>
        /\ Range(call.tab.numeric_features) \cap Range(call.tab.categorical_features) = {}
        /\ NoDuplicates(call.tab.features)
        /\ call.tab.id_field \notin Range(call.tab.features)
        /\ call.tab.target_field \notin Range(call.tab.features)

Specified(cell) == ~IsNull(cell) /\ cell # Some("")

\* the conditions the validation is said to test
DocumentAsRequired(doc) ==
    /\ doc.problemCategory = "binary_classification_base"
    /\ doc.version = "1.0"
    /\ DOMAIN doc.inputDatasets = {MainInput}
    /\ Specified(doc.inputDatasets[MainInput].idField)
    /\ Specified(doc.inputDatasets[MainInput].targetField)
    /\ ~IsNull(doc.inputDatasets[MainInput].targetClass)
    /\ Len(doc.inputDatasets[MainInput].predictorFields) > 0
    /\ \A k \in 1..Len(doc.inputDatasets[MainInput].predictorFields) :
          /\ doc.inputDatasets[MainInput].predictorFields[k].fieldName # ""
          /\ doc.inputDatasets[MainInput].predictorFields[k].dataType
                 \in {"NUMERIC", "INT", "REAL", "CATEGORICAL"}

\* C17: a document is accepted if and only if its tags are the expected ones,
\* idField, targetField and targetClass are there (whatever the class is), the
\* predictor list is not empty and every predictor has a name and a known
\* dataType; a rejection reports an error.
C17_SchemaAcceptance ==
    call.op = "validate_schema" =>
        /\ call.err = "" <=> DocumentAsRequired(call.arg)
        /\ call.err # "" => Len(call.tab.rows) > 0

\* the fields validate_data asks for, in the order it asks for them
RequiredFields(is_train) ==
    <<id_field>> \o (IF is_train THEN <<target_field>> ELSE <<>>) \o features

MissingFields(data, is_train) ==
    SelectSeq(RequiredFields(is_train), LAMBDA f : ~HasCol(data, f))

ValidatedAs(is_train) ==
    call.op = IF is_train THEN "validate_data(is_train=True)"
              ELSE "validate_data(is_train=False)"

\* C18: validate_data accepts a table exactly when it has the id column, every
\* feature column and, for a training table only, the target column; a
\* rejection names the first missing field in the order id, target, features.
C18_DataAcceptance ==
    \A is_train \in BOOLEAN :
        ValidatedAs(is_train) =>
            /\ call.err = "" <=> MissingFields(call.arg, is_train) = <<>>
            /\ call.err = "" => call.tab = call.arg
            /\ call.err # "" => call.err = NotPresent(MissingFields(call.arg, is_train)[1])

\* a serving table without the target column is accepted
C18_Witness ==
    /\ ValidatedAs(FALSE)
    /\ ~HasCol(call.arg, target_field)
    /\ call.err = ""
    /\ call.tab = call.arg

(***************************************************************************)
(* The health check (Spec)                                                 *)
(***************************************************************************)
\* C19: the service stays up in every state, and every answer to GET /ping is
\* 200 with the body {"message": "Pong!"}, whether or not the artifacts are
\* loaded and however earlier /infer requests ended.
C19_PingAlwaysPong ==
    /\ serving
    /\ call.op = "ping" => call.tab = [code |-> 200, body |-> [message |-> "Pong!"]]

\* a ping answered while nothing is loaded and after a failed request
C19_Witness ==
    /\ call.op = "ping"
    /\ call.tab.code = 200
    /\ Unloaded
    /\ \E r \in 1..Len(requests) : Failed(r)

(***************************************************************************)
(* The numeric stages of the pipeline (SpecPipe)                           *)
(***************************************************************************)
\* the table as it enters the clipper: the stages up to the scaler
Pipeline_standardized(pipe, X) ==
    LET s1 == ColumnSelector_transform(features, "keep", X)
        s2 == AddMissingIndicator_transform(pipe.variables_, s1)
        s3 == MeanMedianImputer_transform(pipe.imputer_dict_, s2)
    IN  StandardScaler_transform(pipe.scaler, s3)

InInterval(c) == ~IsNull(c) /\ 100 * min_val <= c[1] /\ c[1] <= 100 * max_val

ClippedFrom(z, c) ==
    /\ InInterval(c)
    /\ ~IsNull(z)
    /\ z[1] > 100 * max_val => c[1] = 100 * max_val
    /\ z[1] < 100 * min_val => c[1] = 100 * min_val
    /\ InInterval(z) => c = z

\* C20: in the output of every transform of a fitted pipeline the value of
\* every numeric feature lies in [-4.0, 4.0] (here in hundredths): it is 4.0
\* where the standardized value is above 4.0, -4.0 where it is below -4.0,
\* and the standardized value itself otherwise.
C20_ClippingBound ==
    (call.op = "transform" /\ call.err = "") =>
        \A i \in 1..NRows(call.arg) : \A var \in Range(numeric_features) :
            ClippedFrom(Pipeline_standardized(preprocess_pipeline, call.arg).rows[i][var],
                        call.tab.rows[i][var])

HasIndicator(tab, src, var) ==
    /\ HasCol(tab, na_name(var))
    /\ NRows(tab) = NRows(src)
    /\ \A i \in 1..NRows(src) :
          tab.rows[i][na_name(var)] = IF IsNull(src.rows[i][var]) THEN Some(1) ELSE Some(0)

\* C21: for every declared numeric feature f, whether or not it had a null in
\* the training table, the output of fit_transform and of every transform has
\* a column f_na that is 1 exactly in the rows where the source value of f is
\* null.
C21_IndicatorForEveryNumeric ==
    /\ preprocess_pipeline.fitted =>
          \A var \in Range(numeric_features) : HasIndicator(transformed_data, train_data, var)
    /\ (call.op = "transform" /\ call.err = "") =>
          \A var \in Range(numeric_features) : HasIndicator(call.tab, call.arg, var)

(***************************************************************************)
(* The most-frequent imputer and the one-hot encoder as objects of their   *)
(* own: constructed once, then fitted and applied any number of times.     *)
(* preprocess_pipeline holds the two instances (fill_vals and              *)
(* top_cat_by_ohe_col) and whether the sort of the installed numpy keeps   *)
(* ties in first-encountered order; call is the last call.                 *)
(***************************************************************************)
MaxStageRows == 11
MaxSmallRows == 3

\* MostFrequentImputer.__init__ and OneHotEncoderMultipleCols.__init__
NewStages(stable_sort) ==
    [stable_sort |-> stable_sort, fill_vals |-> NoDict, top_cat_by_ohe_col |-> NoDict]

StageTable(vals) ==
    [cols |-> <<"c1">>, rows |-> [i \in 1..Len(vals) |-> [c \in {"c1"} |-> vals[i]]]]

Rep(v, n) == [i \in 1..n |-> v]

\* m observed values of c1: all "a", or one "b" before or after the "a"s
StageBodies(m) ==
    IF m = 0 THEN {<<>>}
    ELSE {Rep(Some("a"), m),
          <<Some("b")>> \o Rep(Some("a"), m - 1),
          Rep(Some("a"), m - 1) \o <<Some("b")>>}

\* the lengths of the tables: the short ones, and those from the length at
\* which one null is the threshold fraction of the rows
StageLengths == (1..MaxSmallRows) \cup ((100 \div threshold_pct)..MaxStageRows)

\* tables of c1 with no null or one
NullTables ==
    UNION {{StageTable(Rep(None, k) \o body) : body \in StageBodies(n - k)} :
              n \in StageLengths, k \in 0..1}

Alphabet == <<"a", "b", "c", "d", "e", "f", "g", "h", "i", "j", "k", "l">>

Letters(m) == [i \in 1..m |-> Some(Alphabet[IF i <= Len(Alphabet) THEN i ELSE Len(Alphabet)])]

\* tables of c1 in which every category occurs once, in either order
AlphabetTables ==
    UNION {{StageTable(Letters(m)), StageTable(TieOrder(Letters(m), FALSE))} :
              m \in (1..MaxSmallRows) \cup (max_num_categories..MaxStageRows)}

\* a table without the categorical column
NoColumnTable == [cols |-> <<"n1">>, rows |-> <<[c \in {"n1"} |-> Some(0)]>>]

ImputerFitTables == NullTables \cup {NoColumnTable}

OneHotFitTables ==
    AlphabetTables \cup {t \in NullTables : NRows(t) <= MaxSmallRows} \cup {NoColumnTable}

ImputerTransformTables ==
    {StageTable(<<None, Some("a")>>), StageTable(<<Some("z"), None>>), NoColumnTable}

InitStage ==
    /\ preprocess_pipeline \in {NewStages(stable_sort) : stable_sort \in BOOLEAN}
    /\ train_data = EmptyTable
    /\ transformed_data = EmptyTable
    /\ label_encoder = NewLabelEncoder
    /\ transformed_labels = NoLabels
    /\ classifier = None
    /\ train_pc = "preprocess"
    /\ InitServe
    /\ call = NoCall

ImputerFit(X) ==
    /\ preprocess_pipeline' =
          [preprocess_pipeline EXCEPT
              !.fill_vals = MostFrequentImputer_fit(preprocess_pipeline.fill_vals, X,
                                                    preprocess_pipeline.stable_sort)]
    /\ call' = [op |-> "MostFrequentImputer.fit", arg |-> X, err |-> "", tab |-> EmptyTable]
    /\ UNCHANGED <<train_data, transformed_data, label_encoder, transformed_labels,
                   classifier, train_pc>>
    /\ UNCHANGED serveVars

ImputerTransform(X) ==
    /\ call' = [op |-> "MostFrequentImputer.transform", arg |-> X, err |-> "",
                tab |-> MostFrequentImputer_transform(preprocess_pipeline.fill_vals, X),
                arg_after |-> WriteThrough(preprocess_pipeline,
                                           <<"cat_most_frequent_imputer">>, X)]
    /\ UNCHANGED trainVars
    /\ UNCHANGED serveVars

OneHotFit(X) ==
    /\ preprocess_pipeline' =
          [preprocess_pipeline EXCEPT
              !.top_cat_by_ohe_col =
                  OneHotEncoder_fit(preprocess_pipeline.top_cat_by_ohe_col, X,
                                    preprocess_pipeline.stable_sort)]
    /\ call' = [op |-> "OneHotEncoderMultipleCols.fit", arg |-> X, err |-> "",
                tab |-> EmptyTable]
    /\ UNCHANGED <<train_data, transformed_data, label_encoder, transformed_labels,
                   classifier, train_pc>>
    /\ UNCHANGED serveVars

NextStage ==
    \/ \E X \in ImputerFitTables : ImputerFit(X)
    \/ \E X \in ImputerTransformTables : ImputerTransform(X)
    \/ \E X \in OneHotFitTables : OneHotFit(X)

SpecStage == InitStage /\ [][NextStage]_vars

\* the fraction of nulls of var in X is strictly below the threshold
BelowThreshold(X, var) ==
    /\ HasCol(X, var)
    /\ 100 * NullCount(Column(X, var)) < threshold_pct * NRows(X)

\* v is observed in column var of X and no category is observed more often
MostFrequentIn(X, var, v) ==
    /\ Count(Column(X, var), v) > 0
    /\ \A w \in Range(Distinct(Column(X, var))) :
          Count(Column(X, var), w) <= Count(Column(X, var), v)

FitRecords(X, before, after, var) ==
    IF BelowThreshold(X, var)
    THEN var \in DOMAIN after /\ MostFrequentIn(X, var, after[var])
    ELSE /\ var \in DOMAIN after <=> var \in DOMAIN before
         /\ var \in DOMAIN before => after[var] = before[var]

FillsRecorded(fill_vals, X, out) ==
    /\ out.cols = X.cols
    /\ NRows(out) = NRows(X)
    /\ \A i \in 1..NRows(X) : \A c \in Range(X.cols) :
          out.rows[i][c] = IF c \in DOMAIN fill_vals /\ IsNull(X.rows[i][c])
                           THEN Some(fill_vals[c])
                           ELSE X.rows[i][c]

RankedFirstEncountered(s) == SortByCount(Distinct(s), s)

\* C23: a fit of the one-hot encoder learns for each categorical feature of
\* the fit table the first K = 10 of its categories ranked by descending
\* frequency, categories of equal frequency ranked by first-encountered order:
\* at most K categories, and a tie at the K-th place goes to the category
\* encountered first.
C23_TopCategories ==
    (call.op = "OneHotEncoderMultipleCols.fit") =>
        \A col \in Range(ohe_columns) :
            HasCol(call.arg, col) =>
                /\ col \in DOMAIN preprocess_pipeline.top_cat_by_ohe_col
                /\ preprocess_pipeline.top_cat_by_ohe_col[col] =
                      Head_n(RankedFirstEncountered(Column(call.arg, col)), max_num_categories)

\* the observed values of var in X are none at all, or all the same (their
\* standard deviation is zero)
Degenerate(X, var) ==
    \A i, j \in 1..NRows(X) :
        (~IsNull(X.rows[i][var]) /\ ~IsNull(X.rows[j][var])) => X.rows[i][var] = X.rows[j][var]

\* C24: a fit of the pipeline on a table in which a numeric feature is null in
\* every row, or has a standard deviation of zero, fails: the pipeline is
\* fitted only on tables whose numeric features each have two different
\* observed values.
C24_DegenerateFitFails ==
    preprocess_pipeline.fitted =>
        \A var \in Range(numeric_features) : ~Degenerate(train_data, var)

\* the steps of run_training in the order of the code; a failed run is over
TrainRank ==
    [pc \in {"preprocess", "balance", "fit", "save_preprocessor", "save_label_encoder",
             "save_model", "done", "failed"} |->
        CASE pc = "preprocess" -> 1
          [] pc = "balance" -> 2
          [] pc = "fit" -> 3
          [] pc = "save_preprocessor" -> 4
          [] pc = "save_label_encoder" -> 5
          [] pc = "save_model" -> 6
          [] OTHER -> 7]

\* C25: a training run never goes back to a step it has left, so the
\* class-balance step runs at most once; it is entered only from the step that
\* fits the pipeline and the label encoder, with both fitted; the classifier
\* is fitted only in the step that the class-balance step leads to, so a run
\* that fits the classifier has balanced the classes exactly once before; and
\* the step that runs the class-balance step is no step of the serving
\* process.
C25_BalanceOnce ==
    [][/\ train_pc' # train_pc => TrainRank[train_pc'] > TrainRank[train_pc]
       /\ (train_pc' = "balance" /\ train_pc # "balance") =>
             /\ train_pc = "preprocess"
             /\ preprocess_pipeline'.fitted
             /\ ~IsNull(label_encoder'.given_classes)
             /\ transformed_labels'.err = ""
       /\ (train_pc' = "fit" /\ train_pc # "fit") => train_pc = "balance"
       /\ classifier' # classifier => train_pc = "fit"
       /\ (train_pc = "balance" /\ train_pc' # "balance") =>
             UNCHANGED <<model_server, requests, running, loads, first_load_error, call>>]_vars

\* a finished training run, and a prediction made with what it saved
C25_Witness ==
    /\ train_pc = "done"
    /\ ~IsNull(classifier)
    /\ call.op = "predict_proba"
    /\ call.err = ""

(***************************************************************************)
(* The label encoder fitted more than once: on the training column first,  *)
(* then on any other target column.                                        *)
(***************************************************************************)
RefitTables == {t \in LabelTables : NRows(t) <= MaxSmallRows}

InitRefit ==
    /\ train_data \in RefitTables
    /\ InitTrain
    /\ InitServe
    /\ call = NoCall

\* CustomLabelBinarizer.fit on an encoder that is fitted already
LabelRefit(X) ==
    /\ ~IsNull(label_encoder.given_classes)
    /\ label_encoder' = CustomLabelBinarizer_fit(X)
    /\ call' = [op |-> "label_fit", arg |-> X, err |-> "", tab |-> EmptyTable]
    /\ UNCHANGED <<train_data, preprocess_pipeline, transformed_data, transformed_labels,
                   classifier, train_pc>>
    /\ UNCHANGED serveVars

NextRefit ==
    \/ LabelFit
    \/ \E X \in RefitTables : LabelRefit(X)

SpecRefit == InitRefit /\ [][NextRefit]_vars

\* C26: a fitted label encoder keeps the classes of its first fit: a later fit
\* on a target column with another set of classes is an error and leaves
\* given_classes as it was.
C26_RefitRejected ==
    ~IsNull(label_encoder.given_classes) =>
        /\ Range(label_encoder.given_classes[1]) = LabelValues(train_data)
        /\ (call.op = "label_fit" /\ LabelValues(call.arg) # LabelValues(train_data)) =>
              call.err # ""

\* the tables that agree with X on the declared features row by row: other
\* ids, a target column (of either class, before or after the other columns)
\* or none, and an undeclared column or none
WithTargets(X) ==
    {DataFrame_drop(X, target_field),
     WithColumn(X, target_field, Some("A")),
     WithColumn(X, target_field, Some("B")),
     Project(WithColumn(X, target_field, Some("B")),
             <<target_field>> \o DataFrame_drop(X, target_field).cols)}

Variants(X) ==
    UNION {UNION {{Z, WithColumn(Z, "x", Some(1))} : Z \in WithTargets(Y)} :
              Y \in {X, IF HasCol(X, id_field) THEN WithIds(X, 1) ELSE X}}

\* what the method op of the model server gives on data
CallOf(op, server, data, strict_names) ==
    CASE op = "predict_proba" -> ModelServer_predict_proba(server, data, strict_names)
      [] op = "predict" -> ModelServer_predict(server, data, strict_names)
      [] OTHER -> ModelServer_predict_for_online_inferences(server, data, strict_names)

SansId(tab) == DataFrame_drop(tab, id_field)

SameOutcome(r, v) == r.err = v.err /\ SansId(r.tab) = SansId(v.tab)

\* C27: for the table of every prediction call, every table that agrees with
\* it on the declared features row by row, whatever its ids, its target column
\* and its undeclared columns, gets the same outcome from the same method:
\* the same probabilities and classes row by row, or the same error.
C27_OnlyFeaturesMatter ==
    call.op \in {"predict_proba", "predict", "predict_for_online_inferences"} =>
        \A V \in Variants(call.arg) : \A strict_names \in BOOLEAN :
            SameOutcome(CallOf(call.op, model_server, call.arg, strict_names),
                        CallOf(call.op, model_server, V, strict_names))

\* a prediction made for a table that has a target column
C27_Witness ==
    /\ call.op = "predict_proba"
    /\ call.err = ""
    /\ HasCol(call.arg, target_field)
    /\ \E V \in Variants(call.arg) :
          /\ ~HasCol(V, target_field)
          /\ HasCol(V, "x")
          /\ V.rows[1][id_field] # call.arg.rows[1][id_field]
          /\ SansId(ModelServer_predict_proba(model_server, V, FALSE).tab) = SansId(call.tab)

(***************************************************************************)
(* The training run on its own, on every training table, with the writes   *)
(* of the artifacts able to fail.  (Spec and SpecCalls follow the runs     *)
(* whose writes succeed: the serving process sees the same files there,    *)
(* while the run is between two writes.)                                   *)
(***************************************************************************)
\* joblib.dump raises (the directory is missing or not writable, the disk is
\* full): the except clause of run_training logs the error and the run is over
SaveFails ==
    /\ train_pc \in {"save_preprocessor", "save_label_encoder", "save_model"}
    /\ train_pc' = "failed"
    /\ UNCHANGED <<train_data, preprocess_pipeline, transformed_data, label_encoder,
                   transformed_labels, classifier, call>>
    /\ UNCHANGED serveVars

NextTrain ==
    \/ TrainPreprocess
    \/ TrainBalance
    \/ TrainFit
    \/ SavePreprocessor
    \/ SaveLabelEncoder
    \/ SaveModel
    \/ SaveFails

SpecTrain == InitPipe /\ [][NextTrain]_vars

\* C28: a training run that has failed takes no further step, and a run that
\* is over leaves the saved preprocessor and label encoder only together with
\* the saved classifier.
C28_NoPartialArtifacts ==
    [][/\ train_pc = "failed" => UNCHANGED <<trainVars, disk>>
       /\ train_pc' \in {"done", "failed"} =>
             ((~IsNull(disk'.preprocessor) \/ ~IsNull(disk'.label_encoder))
                 => ~IsNull(disk'.model))]_vars

\* C29: every call of predict_proba, predict and predict_for_online_inferences
\* leaves the table it was called with as it was: the same columns and the
\* same values in every row.
C29_InputUntouched ==
    call.op \in {"predict_proba", "predict", "predict_for_online_inferences"} =>
        call.arg_after = call.arg

\* a prediction for a table with a value the clipper changes and a null the
\* imputer fills
C29_Witness ==
    /\ call.op = "predict_proba"
    /\ call.err = ""
    /\ ValueClipper_clip(call.arg, 1) # call.arg
    /\ \E i \in 1..NRows(call.arg) : IsNull(call.arg.rows[i]["n2"])

\* C30: after a fit of the most-frequent imputer fill_vals has an entry for
\* exactly the categorical features whose null fraction in that fit's table is
\* below the threshold, and after a fit of the one-hot encoder
\* top_cat_by_ohe_col has an entry for exactly the encoded columns of that
\* fit's table, whatever the instance was fitted on before.
C30_LatestFitOnly ==
    /\ call.op = "MostFrequentImputer.fit" =>
          DOMAIN preprocess_pipeline.fill_vals =
              {var \in Range(categorical_features) : BelowThreshold(call.arg, var)}
    /\ call.op = "OneHotEncoderMultipleCols.fit" =>
          DOMAIN preprocess_pipeline.top_cat_by_ohe_col =
              {col \in Range(ohe_columns) : HasCol(call.arg, col)}

=============================================================================
